---- MODULE Spec2Model ----
(***************************************************************************)
(* State-machine model of the GDB RSP server of src/server/                *)
(* GdbServerImpl.cpp: the top loop (rspServer), the packet dispatcher      *)
(* (rspClientRequest) and the execution-control core (rspContinue,         *)
(* rspSingleStep, rspSyscallRequest, rspSyscallReply).                     *)
(*                                                                         *)
(* Packets are sequences of one-character strings.  The connection and the *)
(* target are the server's environment: what the client sends, whether a   *)
(* Ctrl-C is pending and what the target's resume returns are chosen       *)
(* nondeterministically from small sets.                                   *)
(*                                                                         *)
(* `log' records, for the request being handled, every call the server     *)
(* makes on the connection and on the target, in program order; it is      *)
(* cleared when the next request is read.                                  *)
(***************************************************************************)
EXTENDS Integers, Sequences, FiniteSets, TLC

VARIABLES
  pc,                    \* where the server is: "loop", "continue", "exited", "failed", "aborted"
  connected,             \* rsp->isConnected ()
  breakPending,          \* a Ctrl-C byte is waiting on the connection
  mExitServer,
  mSyscallContinuation,
  mTimeout,              \* seconds
  killBehaviour,
  traceFlags,            \* flag name -> BOOLEAN
  mpHash,                \* matchpoint table: set of <<type, addr, instr>>
  regs,                  \* target registers 0..32
  mem,                   \* target memory, MemBase .. MemBase+MemSize-1
  now,                   \* system_clock, in ticks of one interrupt slice
  timeout_end,           \* rspContinue's local deadline
  log,                   \* calls made while handling the current request
  inputs                 \* what the environment draws from: [requests, stops, results]

vars == <<pc, connected, breakPending, mExitServer, mSyscallContinuation,
          mTimeout, killBehaviour, traceFlags, mpHash, regs, mem, now,
          timeout_end, log, inputs>>

----------------------------------------------------------------------------
(* Bounds of the model *)

\* Number of bytes of target memory the target accepts.
MemSize == 4
\* The clock is not advanced past this many ticks inside one continue.
MaxNow == 12

(* Program constants *)

\* First address of the target's memory.
MemBase == 4096
\* Offset of the NUL byte in the initial memory image.
NulAt == 2
\* interruptTimeout = 0.1 s is one tick of the clock.
InterruptTimeout == 1
\* One second is ten interrupt slices.
TicksPerSecond == 10
RISCV_NUM_REGS == 33
RSP_PKT_SIZE == 4096
DUMMY_TID == 1

SYSCALL_NONE_PENDING == "SYSCALL_NONE_PENDING"
SYSCALL_THEN_FINISH_STEPPING == "SYSCALL_THEN_FINISH_STEPPING"
SYSCALL_THEN_FINISH_CONTINUE == "SYSCALL_THEN_FINISH_CONTINUE"
SyscallContinuationType ==
  {SYSCALL_NONE_PENDING, SYSCALL_THEN_FINISH_STEPPING, SYSCALL_THEN_FINISH_CONTINUE}

EXIT_ON_KILL == "EXIT_ON_KILL"
RESET_ON_KILL == "RESET_ON_KILL"

\* TargetSignal numeric values
SigNONE == 0
SigINT == 2
SigTRAP == 5
SigXCPU == 24
SigUNKNOWN == 143

ResumeRes == {"NONE", "SUCCESS", "FAILURE", "STEPPED", "INTERRUPTED", "TIMEOUT", "SYSCALL"}

----------------------------------------------------------------------------
(* Characters and hexadecimal text *)

HexChars == <<"0","1","2","3","4","5","6","7","8","9","a","b","c","d","e","f">>

\* Utils::hex2Char: a nibble to its lowercase hex digit.
hex2Char(n) == HexChars[(n % 16) + 1]

IsHexDigit(c) ==
  c \in {"0","1","2","3","4","5","6","7","8","9",
         "a","b","c","d","e","f","A","B","C","D","E","F"}

\* Utils::char2Hex: a hex digit to its value (-1 if it is none).
char2Hex(c) ==
  CASE c = "0" -> 0 [] c = "1" -> 1 [] c = "2" -> 2 [] c = "3" -> 3
    [] c = "4" -> 4 [] c = "5" -> 5 [] c = "6" -> 6 [] c = "7" -> 7
    [] c = "8" -> 8 [] c = "9" -> 9
    [] c \in {"a", "A"} -> 10 [] c \in {"b", "B"} -> 11
    [] c \in {"c", "C"} -> 12 [] c \in {"d", "D"} -> 13
    [] c \in {"e", "E"} -> 14 [] c \in {"f", "F"} -> 15
    [] OTHER -> -1

(* A 32-bit value (uint_reg_t, uint32_t, int) is represented by the integer   *)
(* in -2^31 .. 2^31-1 that has the same bit pattern, so that an int and the *)
(* uint32_t it converts to are the same number here.  \div rounds down and  *)
(* % is non-negative, which makes Nibble the two's-complement digit.        *)
Pow16(i) == CASE i = 0 -> 1 [] i = 1 -> 16 [] i = 2 -> 256 [] i = 3 -> 4096
              [] i = 4 -> 65536 [] i = 5 -> 1048576 [] i = 6 -> 16777216
              [] i = 7 -> 268435456

\* Hex digit i (0 = least significant) of the 32-bit pattern of v.
Nibble(v, i) == (v \div Pow16(i)) % 16

\* The 32-bit pattern v * 16 + d (the top digit of v is shifted out).
MulAdd16(v, d) ==
  LET low == (v % Pow16(6)) * 16 + d          \* bits 0..27
      top == Nibble(v, 6)                      \* becomes bits 28..31
  IN IF top >= 8 THEN low + (top - 16) * Pow16(7) ELSE low + top * Pow16(7)

\* Number of significant hex digits of the 32-bit pattern of v (at least 1).
RECURSIVE HexWidth(_, _)
HexWidth(v, i) == IF i = 0 \/ Nibble(v, i) # 0 THEN i + 1 ELSE HexWidth(v, i - 1)

\* printf ("%x") of a 32-bit value: lowercase hex, no prefix, no leading zeros.
FmtHex(v) ==
  LET w == HexWidth(v, 7) IN [k \in 1..w |-> hex2Char(Nibble(v, w - k))]

----------------------------------------------------------------------------
(* ASCII text and the Utils / RspPacket conversions *)

\* The printable ASCII characters, codes 32 .. 126 in order (the double
\* quote, the backslash and the backquote are written by name).
AsciiChars ==
  <<
     " ", "!", "DQUOTE", "#", "$", "%", "&", "'", "(", ")", "*", "+", ",", "-", ".", "/",
     "0", "1", "2", "3", "4", "5", "6", "7", "8", "9", ":", ";", "<", "=", ">", "?",
     "@", "A", "B", "C", "D", "E", "F", "G", "H", "I", "J", "K", "L", "M", "N", "O",
     "P", "Q", "R", "S", "T", "U", "V", "W", "X", "Y", "Z", "[", "BSLASH", "]", "^", "_",
     "BQUOTE", "a", "b", "c", "d", "e", "f", "g", "h", "i", "j", "k", "l", "m", "n", "o",
     "p", "q", "r", "s", "t", "u", "v", "w", "x", "y", "z", "{", "|", "}", "~"
  >>

NUL == ""
NL == "\n"

\* The character with a given code.
Chr(code) ==
  CASE code = 0 -> NUL
    [] code = 10 -> NL
    [] code >= 32 /\ code <= 126 -> AsciiChars[code - 31]
    [] OTHER -> "?"

\* The code of a character.
OrdTable ==
  [c \in {AsciiChars[i] : i \in 1..Len(AsciiChars)} |->
     31 + (CHOOSE i \in 1..Len(AsciiChars) : AsciiChars[i] = c)]

Ord(c) ==
  CASE c = NUL -> 0
    [] c = NL -> 10
    [] OTHER -> OrdTable[c]

\* The packet buffer after getPkt: the data, then its NUL terminator.
BufAt(data, i) == IF i >= 1 /\ i <= Len(data) THEN data[i] ELSE NUL

\* The characters of data from index i to its end.
Tail_(data, i) == SubSeq(data, i, Len(data))

\* strncmp (p, data, strlen (p)) == 0
StartsWith(data, p) == Len(data) >= Len(p) /\ SubSeq(data, 1, Len(p)) = p

\* Index of the first c in data, or 0 if there is none.
RECURSIVE IndexFrom(_, _, _)
IndexFrom(data, c, i) ==
  IF i > Len(data) THEN 0 ELSE IF data[i] = c THEN i ELSE IndexFrom(data, c, i + 1)
IndexOf(data, c) == IndexFrom(data, c, 1)

\* Utils::val2Hex (val, buf, numBytes, true): little-endian; two hex digits
\* per byte, least significant byte first.
val2Hex(val, numBytes) ==
  [k \in 1..(2 * numBytes) |->
     LET byte == (k - 1) \div 2 IN
     IF k % 2 = 1 THEN hex2Char(Nibble(val, 2 * byte + 1))
                  ELSE hex2Char(Nibble(val, 2 * byte))]

\* Utils::hex2Val (buf, numBytes, true): the inverse; buf starts at index i.
RECURSIVE hex2ValFrom(_, _, _)
hex2ValFrom(data, i, numBytes) ==
  IF numBytes = 0 THEN 0
  ELSE MulAdd16(MulAdd16(hex2ValFrom(data, i + 2, numBytes - 1),
                         char2Hex(BufAt(data, i))),
                char2Hex(BufAt(data, i + 1)))

----------------------------------------------------------------------------
(* The server's and target's state as one record, so that handlers compose *)

St ==
  [pc |-> pc, connected |-> connected, breakPending |-> breakPending,
   mExitServer |-> mExitServer, mSyscallContinuation |-> mSyscallContinuation,
   mTimeout |-> mTimeout, killBehaviour |-> killBehaviour,
   traceFlags |-> traceFlags, mpHash |-> mpHash, regs |-> regs, mem |-> mem,
   now |-> now, timeout_end |-> timeout_end, log |-> log]

Becomes(s) ==
  /\ pc' = s.pc
  /\ connected' = s.connected
  /\ breakPending' = s.breakPending
  /\ mExitServer' = s.mExitServer
  /\ mSyscallContinuation' = s.mSyscallContinuation
  /\ mTimeout' = s.mTimeout
  /\ killBehaviour' = s.killBehaviour
  /\ traceFlags' = s.traceFlags
  /\ mpHash' = s.mpHash
  /\ regs' = s.regs
  /\ mem' = s.mem
  /\ now' = s.now
  /\ timeout_end' = s.timeout_end
  /\ log' = s.log
  /\ UNCHANGED inputs

Ev(op, arg) == [op |-> op, arg |-> arg]
Logged(s, op, arg) == [s EXCEPT !.log = Append(@, Ev(op, arg))]

----------------------------------------------------------------------------
(* Connection *)

\* rsp->putPkt (pkt)
putPkt(s, data) == Logged(s, "putPkt", data)

\* rsp->haveBreak (): reports a pending Ctrl-C and consumes it.
haveBreak(s) == [Logged(s, "haveBreak", s.breakPending) EXCEPT !.breakPending = FALSE]

\* rsp->rspClose ()
rspClose(s) ==
  [Logged(s, "rspClose", <<>>) EXCEPT !.connected = FALSE, !.breakPending = FALSE]

----------------------------------------------------------------------------
(* Target *)

\* cpu->read (addr, &ch, 1): 1 if the target accepts the address, else 0.
ReadOk(addr) == addr >= MemBase /\ addr < MemBase + MemSize

\* cpu->writeRegister (reg, value)
writeRegister(s, reg, value) ==
  [Logged(s, "writeRegister", <<reg, value>>)
     EXCEPT !.regs = IF reg \in DOMAIN @ THEN [@ EXCEPT ![reg] = value] ELSE @]

\* cpu->resume (type): the call; what the target returns is the environment's.
resume(s, type) == Logged(s, "resume", type)

STOP == "STOP"
STEP == "STEP"
CONTINUE == "CONTINUE"

----------------------------------------------------------------------------
(* Stop replies *)

\* The stop reply with the signal number in decimal.
rspReportException_Decimal(s, sig) ==
  putPkt(s, <<"S", hex2Char(sig \div 10), hex2Char(sig % 10)>>)

rspReportException(s, sig) ==
  putPkt(s, <<"S", hex2Char(sig \div 16), hex2Char(sig % 16)>>)

----------------------------------------------------------------------------
(* Semihosted system calls *)

\* stringLength not counting the terminator.
RECURSIVE StringLengthFrom_NoNul(_, _, _)
StringLengthFrom_NoNul(m, addr, count) ==
  LET a == addr + count IN
  IF ReadOk(a)
    THEN IF m[a] = 0 THEN count ELSE StringLengthFrom_NoNul(m, addr, count + 1)
    ELSE count

RECURSIVE StringLengthFrom(_, _, _)
StringLengthFrom(m, addr, count) ==
  LET a == addr + count IN
  IF ReadOk(a)
    THEN IF m[a] = 0 THEN count + 1 ELSE StringLengthFrom(m, addr, count + 1)
    ELSE count

stringLength(s, addr) == StringLengthFrom(s.mem, addr, 0)

Comma == <<",">>
Slash == <<"/">>

SyscallPacket(s) ==
  LET a0 == s.regs[10]
      a1 == s.regs[11]
      a2 == s.regs[12]
      a7 == s.regs[17]
  IN CASE a7 = 57 -> <<"F","c","l","o","s","e",",">> \o FmtHex(a0)
       [] a7 = 62 -> <<"F","l","s","e","e","k",",">> \o FmtHex(a0)
                       \o Comma \o FmtHex(a1) \o Comma \o FmtHex(a2)
       [] a7 = 63 -> <<"F","r","e","a","d",",">> \o FmtHex(a0)
                       \o Comma \o FmtHex(a1) \o Comma \o FmtHex(a2)
       [] a7 = 64 -> <<"F","w","r","i","t","e",",">> \o FmtHex(a0)
                       \o Comma \o FmtHex(a1) \o Comma \o FmtHex(a2)
       [] a7 = 80 -> <<"F","f","s","t","a","t",",">> \o FmtHex(a0)
                       \o Comma \o FmtHex(a1)
       [] a7 = 93 -> <<"W">> \o FmtHex(a0)
       [] a7 = 169 -> <<"F","g","e","t","t","i","m","e","o","f","d","a","y",",">>
                       \o FmtHex(a0) \o Comma \o FmtHex(a1)
       [] a7 = 1024 -> <<"F","o","p","e","n",",">> \o FmtHex(a0) \o Slash
                       \o FmtHex(stringLength(s, a0))
                       \o Comma \o FmtHex(a1) \o Comma \o FmtHex(a2)
       [] a7 = 1026 -> <<"F","u","n","l","i","n","k",",">> \o FmtHex(a0) \o Slash
                       \o FmtHex(stringLength(s, a0))
       [] a7 = 1038 -> <<"F","s","t","a","t",",">> \o FmtHex(a0) \o Slash
                       \o FmtHex(stringLength(s, a0)) \o Comma \o FmtHex(a1)
       [] OTHER -> <<>>

SupportedSyscalls == {57, 62, 63, 64, 80, 93, 169, 1024, 1026, 1038}

\* rspSyscallRequest keeping the continuation at an exit call.
rspSyscallRequest_ExitKeeps(s, cType) ==
  LET s1 == [s EXCEPT !.mSyscallContinuation = cType] IN
  IF s.regs[17] \in SupportedSyscalls
    THEN putPkt(s1, SyscallPacket(s1))
    ELSE rspReportException(s1, SigTRAP)

\* rspSyscallRequest sending an F packet for a call it does not know.
rspSyscallRequest_UnknownSendsF(s, cType) ==
  LET s1 == [s EXCEPT !.mSyscallContinuation = cType]
      s2 == IF s.regs[17] = 93
              THEN [s1 EXCEPT !.mSyscallContinuation = SYSCALL_NONE_PENDING]
              ELSE s1
  IN IF s.regs[17] \in SupportedSyscalls
       THEN putPkt(s2, SyscallPacket(s2))
       ELSE putPkt(s2, <<"F">> \o FmtHex(s.regs[17]))

\* rspSyscallRequest following the request of a known call with a stop reply.
rspSyscallRequest_AlsoStops(s, cType) ==
  LET s1 == [s EXCEPT !.mSyscallContinuation = cType]
      s2 == IF s.regs[17] = 93
              THEN [s1 EXCEPT !.mSyscallContinuation = SYSCALL_NONE_PENDING]
              ELSE s1
  IN IF s.regs[17] \in SupportedSyscalls
       THEN rspReportException(putPkt(s2, SyscallPacket(s2)), SigTRAP)
       ELSE rspReportException(s1, SigTRAP)

rspSyscallRequest(s, cType) ==
  LET s1 == [s EXCEPT !.mSyscallContinuation = cType]
      a7 == s.regs[17]
  IN IF a7 \in SupportedSyscalls
       THEN LET s2 == IF a7 = 93
                        THEN [s1 EXCEPT !.mSyscallContinuation = SYSCALL_NONE_PENDING]
                        ELSE s1
            IN putPkt(s2, SyscallPacket(s2))
       ELSE rspReportException(s1, SigTRAP)

----------------------------------------------------------------------------
(* The F-reply parser (SyscallReplyPacket): F<retcode>[,<errno>][;C] *)

\* Number of consecutive hex digits of data from index i on.
RECURSIVE HexRun(_, _)
HexRun(data, i) ==
  IF i <= Len(data) /\ IsHexDigit(data[i]) THEN 1 + HexRun(data, i + 1) ELSE 0

\* Value of the n hex digits of data that start at index i.
RECURSIVE HexValue(_, _, _)
HexValue(data, i, n) ==
  IF n = 0 THEN 0
  ELSE MulAdd16(HexValue(data, i, n - 1), char2Hex(data[i + n - 1]))

\* A signed hex number at index i: [ok, val, next].
ScanSignedHex(data, i) ==
  LET neg == i <= Len(data) /\ data[i] = "-"
      j == IF neg THEN i + 1 ELSE i
      n == HexRun(data, j)
      v == HexValue(data, j, n)
  IN [ok |-> n > 0, val |-> IF neg THEN 0 - v ELSE v, next |-> j + n]

SyscallReplyPacket_parse(data) ==
  LET rc == ScanSignedHex(data, 2)
      hasErrno == rc.ok /\ rc.next <= Len(data) /\ data[rc.next] = ","
      en == ScanSignedHex(data, rc.next + 1)
      afterNum == IF hasErrno THEN en.next ELSE rc.next
      numsOk == rc.ok /\ (hasErrno => en.ok)
      hasC == /\ numsOk
              /\ afterNum + 1 = Len(data)
              /\ data[afterNum] = ";"
              /\ data[afterNum + 1] = "C"
      atEnd == afterNum = Len(data) + 1
  IN [valid |-> Len(data) >= 1 /\ data[1] = "F" /\ numsOk /\ (atEnd \/ hasC),
      retcode |-> rc.val,
      hasCtrlC |-> hasC]

----------------------------------------------------------------------------
(* Continue and single step *)

\* Seconds of the user timeout as clock ticks.
Ticks(seconds) == seconds * TicksPerSecond

\* A handler's return to the top loop.  rspContinue's deadline is a local;
\* the clock is read only relative to it, so its origin is moved back to 0.
Returned(s) == [s EXCEPT !.pc = "loop", !.now = 0, !.timeout_end = 0]

\* rspContinue keeping the deadline it finds instead of computing one.
rspContinue_StaleDeadline(s) ==
  LET s2 == haveBreak(s)
  IN IF s.breakPending
       THEN Returned(rspReportException(resume(s2, STOP), SigINT))
       ELSE [s2 EXCEPT !.pc = "continue"]

\* rspContinue reporting a break found on entry without stopping the target.
rspContinue_NoStopOnEntry(s) ==
  LET s1 == [s EXCEPT !.timeout_end = s.now + Ticks(s.mTimeout)]
      s2 == haveBreak(s1)
  IN IF s1.breakPending
       THEN Returned(rspReportException(s2, SigINT))
       ELSE [s2 EXCEPT !.pc = "continue"]

\* rspContinue up to the head of its for (;;) loop.
rspContinue(s) ==
  LET s1 == [s EXCEPT !.timeout_end = s.now + Ticks(s.mTimeout)]
      s2 == haveBreak(s1)
  IN IF s1.breakPending
       THEN Returned(rspReportException(resume(s2, STOP), SigINT))
       ELSE [s2 EXCEPT !.pc = "continue"]

\* The target runs for one resume (STEP or CONTINUE): it returns resType; a
\* slice that times out has used up the interrupt slice; a target stopping
\* at a syscall has a0 and a7 set by the program it ran.
TargetRan(s, type, resType, a0, a7) ==
  LET s1 == Logged(resume(s, type), "stopped", <<resType, a0, a7>>)
      s2 == IF resType = "TIMEOUT" /\ type = CONTINUE
              THEN [s1 EXCEPT !.now = @ + InterruptTimeout] ELSE s1
  IN IF resType = "SYSCALL"
       THEN [s2 EXCEPT !.regs = [@ EXCEPT ![10] = a0, ![17] = a7]]
       ELSE s2

\* The loop body of rspContinue without the test of the deadline.
rspContinueSwitch_NoDeadline(s, resType) ==
  CASE resType = "SYSCALL" ->
         Returned(rspSyscallRequest(s, SYSCALL_THEN_FINISH_CONTINUE))
    [] resType \in {"STEPPED", "INTERRUPTED"} ->
         Returned(rspReportException(s, SigTRAP))
    [] resType = "TIMEOUT" ->
         LET s1 == haveBreak(s) IN
         IF s.breakPending
           THEN Returned(rspReportException(resume(s1, STOP), SigINT))
           ELSE s1
    [] OTHER -> [s EXCEPT !.pc = "aborted"]

\* The loop body of rspContinue without the poll for a break after a slice.
rspContinueSwitch_NoBreakPoll(s, resType) ==
  CASE resType = "SYSCALL" ->
         Returned(rspSyscallRequest(s, SYSCALL_THEN_FINISH_CONTINUE))
    [] resType \in {"STEPPED", "INTERRUPTED"} ->
         Returned(rspReportException(s, SigTRAP))
    [] resType = "TIMEOUT" ->
         IF s.mTimeout # 0 /\ s.timeout_end < s.now
           THEN Returned(rspReportException(resume(s, STOP), SigXCPU))
           ELSE s
    [] OTHER -> [s EXCEPT !.pc = "aborted"]

\* The loop body of rspContinue testing the deadline whatever the timeout is.
rspContinueSwitch_ZeroTimeoutExpires(s, resType) ==
  CASE resType = "SYSCALL" ->
         Returned(rspSyscallRequest(s, SYSCALL_THEN_FINISH_CONTINUE))
    [] resType \in {"STEPPED", "INTERRUPTED"} ->
         Returned(rspReportException(s, SigTRAP))
    [] resType = "TIMEOUT" ->
         IF s.timeout_end < s.now
           THEN Returned(rspReportException(resume(s, STOP), SigXCPU))
           ELSE LET s1 == haveBreak(s) IN
                IF s.breakPending
                  THEN Returned(rspReportException(resume(s1, STOP), SigINT))
                  ELSE s1
    [] OTHER -> [s EXCEPT !.pc = "aborted"]

\* The loop body of rspContinue polling for a break before it tests the
\* deadline.
rspContinueSwitch_BreakFirst(s, resType) ==
  CASE resType = "SYSCALL" ->
         Returned(rspSyscallRequest(s, SYSCALL_THEN_FINISH_CONTINUE))
    [] resType \in {"STEPPED", "INTERRUPTED"} ->
         Returned(rspReportException(s, SigTRAP))
    [] resType = "TIMEOUT" ->
         LET s1 == haveBreak(s) IN
         IF s.breakPending
           THEN Returned(rspReportException(resume(s1, STOP), SigINT))
           ELSE IF s.mTimeout # 0 /\ s.timeout_end < s.now
                  THEN Returned(rspReportException(resume(s1, STOP), SigXCPU))
                  ELSE s1
    [] OTHER -> [s EXCEPT !.pc = "aborted"]

\* The loop body of rspContinue taking FAILURE for a stop at a breakpoint.
rspContinueSwitch_FailureIsTrap(s, resType) ==
  CASE resType = "SYSCALL" ->
         Returned(rspSyscallRequest(s, SYSCALL_THEN_FINISH_CONTINUE))
    [] resType \in {"STEPPED", "INTERRUPTED", "FAILURE"} ->
         Returned(rspReportException(s, SigTRAP))
    [] resType = "TIMEOUT" ->
         IF s.mTimeout # 0 /\ s.timeout_end < s.now
           THEN Returned(rspReportException(resume(s, STOP), SigXCPU))
           ELSE LET s1 == haveBreak(s) IN
                IF s.breakPending
                  THEN Returned(rspReportException(resume(s1, STOP), SigINT))
                  ELSE s1
    [] OTHER -> [s EXCEPT !.pc = "aborted"]

\* One iteration of rspContinue's for (;;) loop, after resume returned resType.
rspContinueSwitch(s, resType) ==
  CASE resType = "SYSCALL" ->
         Returned(rspSyscallRequest(s, SYSCALL_THEN_FINISH_CONTINUE))
    [] resType \in {"STEPPED", "INTERRUPTED"} ->
         Returned(rspReportException(s, SigTRAP))
    [] resType = "TIMEOUT" ->
         IF s.mTimeout # 0 /\ s.timeout_end < s.now
           THEN Returned(rspReportException(resume(s, STOP), SigXCPU))
           ELSE LET s1 == haveBreak(s) IN
                IF s.breakPending
                  THEN Returned(rspReportException(resume(s1, STOP), SigINT))
                  ELSE s1
    [] OTHER -> [s EXCEPT !.pc = "aborted"]

\* rspSingleStep taking a result it does not expect as fatal, as rspContinue
\* does.
rspSingleStep_AbortsOnUnknown(s, resType, a0, a7, brk) ==
  LET s1 == haveBreak(s) IN
  IF s.breakPending
    THEN rspReportException(resume(s1, STOP), SigINT)
    ELSE LET s2 == TargetRan(s1, STEP, resType, a0, a7)
             s3 == [s2 EXCEPT !.breakPending = brk]
         IN IF resType = "SYSCALL"
              THEN rspSyscallRequest(s3, SYSCALL_THEN_FINISH_STEPPING)
              ELSE IF resType \notin {"STEPPED", "INTERRUPTED", "TIMEOUT"}
                     THEN [s3 EXCEPT !.pc = "aborted"]
                     ELSE LET s4 == haveBreak(s3) IN
                          IF s3.breakPending
                            THEN rspReportException(resume(s4, STOP), SigINT)
                            ELSE rspReportException(s4, SigTRAP)

\* rspSingleStep without the poll for a break after the step.
rspSingleStep_NoPollAfter(s, resType, a0, a7, brk) ==
  LET s1 == haveBreak(s) IN
  IF s.breakPending
    THEN rspReportException(resume(s1, STOP), SigINT)
    ELSE LET s2 == TargetRan(s1, STEP, resType, a0, a7)
             s3 == [s2 EXCEPT !.breakPending = brk]
         IN IF resType = "SYSCALL"
              THEN rspSyscallRequest(s3, SYSCALL_THEN_FINISH_STEPPING)
              ELSE rspReportException(s3, SigTRAP)

\* rspSingleStep: resType, a0, a7 are the target's answer to resume (STEP);
\* brk tells whether a Ctrl-C arrives while the target steps.
rspSingleStep(s, resType, a0, a7, brk) ==
  LET s1 == haveBreak(s) IN
  IF s.breakPending
    THEN rspReportException(resume(s1, STOP), SigINT)
    ELSE LET s2 == TargetRan(s1, STEP, resType, a0, a7)
             s3 == [s2 EXCEPT !.breakPending = brk]
         IN IF resType = "SYSCALL"
              THEN rspSyscallRequest(s3, SYSCALL_THEN_FINISH_STEPPING)
              ELSE LET s4 == haveBreak(s3) IN
                   IF s3.breakPending
                     THEN rspReportException(resume(s4, STOP), SigINT)
                     ELSE rspReportException(s4, SigTRAP)

----------------------------------------------------------------------------
(* The F reply *)

\* rspSyscallReply leaving the continuation as it finds it.
rspSyscallReply_NoReset(s, data) ==
  LET p == SyscallReplyPacket_parse(data)
  IN IF p.valid
       THEN LET s2 == IF p.retcode # -1 THEN writeRegister(s, 10, p.retcode) ELSE s
            IN IF p.hasCtrlC
                 THEN rspReportException(s2, SigINT)
                 ELSE IF s.mSyscallContinuation = SYSCALL_THEN_FINISH_CONTINUE
                        THEN rspContinue(s2)
                        ELSE rspReportException(s2, SigTRAP)
       ELSE putPkt(s, <<"E","0","1">>)

\* rspSyscallReply answering a reply it cannot parse with E01 and then with a
\* stop reply as well.
rspSyscallReply_E01ThenStop(s, data) ==
  LET s1 == [s EXCEPT !.mSyscallContinuation = SYSCALL_NONE_PENDING]
      p == SyscallReplyPacket_parse(data)
  IN IF p.valid
       THEN LET s2 == IF p.retcode # -1 THEN writeRegister(s1, 10, p.retcode) ELSE s1
            IN IF p.hasCtrlC
                 THEN rspReportException(s2, SigINT)
                 ELSE IF s.mSyscallContinuation = SYSCALL_THEN_FINISH_CONTINUE
                        THEN rspContinue(s2)
                        ELSE rspReportException(s2, SigTRAP)
       ELSE rspReportException(putPkt(s1, <<"E","0","1">>), SigTRAP)

\* rspSyscallReply writing a0 whatever the return code is.
rspSyscallReply_AlwaysWrites(s, data) ==
  LET s1 == [s EXCEPT !.mSyscallContinuation = SYSCALL_NONE_PENDING]
      p == SyscallReplyPacket_parse(data)
  IN IF p.valid
       THEN LET s2 == writeRegister(s1, 10, p.retcode)
            IN IF p.hasCtrlC
                 THEN rspReportException(s2, SigINT)
                 ELSE IF s.mSyscallContinuation = SYSCALL_THEN_FINISH_CONTINUE
                        THEN rspContinue(s2)
                        ELSE rspReportException(s2, SigTRAP)
       ELSE putPkt(s1, <<"E","0","1">>)

\* rspSyscallReply looking at the latched continuation before the Ctrl-C flag.
rspSyscallReply_ContinuationFirst(s, data) ==
  LET s1 == [s EXCEPT !.mSyscallContinuation = SYSCALL_NONE_PENDING]
      p == SyscallReplyPacket_parse(data)
  IN IF p.valid
       THEN LET s2 == IF p.retcode # -1 THEN writeRegister(s1, 10, p.retcode) ELSE s1
            IN IF s.mSyscallContinuation = SYSCALL_THEN_FINISH_CONTINUE
                 THEN rspContinue(s2)
                 ELSE IF p.hasCtrlC
                        THEN rspReportException(s2, SigINT)
                        ELSE rspReportException(s2, SigTRAP)
       ELSE putPkt(s1, <<"E","0","1">>)

\* rspSyscallReply continuing whatever the latched continuation is.
rspSyscallReply_AlwaysContinues(s, data) ==
  LET s1 == [s EXCEPT !.mSyscallContinuation = SYSCALL_NONE_PENDING]
      p == SyscallReplyPacket_parse(data)
  IN IF p.valid
       THEN LET s2 == IF p.retcode # -1 THEN writeRegister(s1, 10, p.retcode) ELSE s1
            IN IF p.hasCtrlC
                 THEN rspReportException(s2, SigINT)
                 ELSE rspContinue(s2)
       ELSE putPkt(s1, <<"E","0","1">>)

E01 == <<"E","0","1">>
OK == <<"O","K">>

rspSyscallReply(s, data) ==
  LET sysCont == s.mSyscallContinuation
      s1 == [s EXCEPT !.mSyscallContinuation = SYSCALL_NONE_PENDING]
      p == SyscallReplyPacket_parse(data)
  IN IF p.valid
       THEN LET s2 == IF p.retcode # -1 THEN writeRegister(s1, 10, p.retcode) ELSE s1
            IN IF p.hasCtrlC
                 THEN rspReportException(s2, SigINT)
                 ELSE IF sysCont = SYSCALL_THEN_FINISH_CONTINUE
                        THEN rspContinue(s2)
                        ELSE rspReportException(s2, SigTRAP)
       ELSE putPkt(s1, E01)

----------------------------------------------------------------------------
(* Registers and memory *)

\* cpu->readRegister (reg, val): the size in bytes, negative for a register
\* the target does not have.
readRegisterSize(reg) == IF reg >= 0 /\ reg < RISCV_NUM_REGS THEN 4 ELSE -1

\* cpu->write (addr, &val, 1) of one byte.
writeByte(s, addr, val) ==
  [Logged(s, "write", <<addr, val>>)
     EXCEPT !.mem = IF ReadOk(addr) THEN [@ EXCEPT ![addr] = val] ELSE @]

\* The bytes of a sequence written from addr on, lowest address first.
RECURSIVE writeBytes(_, _, _, _)
writeBytes(s, addr, bytes, k) ==
  IF k > Len(bytes) THEN s
  ELSE writeBytes(writeByte(s, addr + k - 1, bytes[k]), addr, bytes, k + 1)

\* The text of a NUL-terminated buffer: what strlen and putPkt take of it.
CString(buf) ==
  LET z == IndexOf(buf, NUL) IN IF z = 0 THEN buf ELSE SubSeq(buf, 1, z - 1)

\* sscanf (pkt->data, "m%x,%x:", &addr, &len) and its M and X likes: the
\* number of conversions made, and their values.
ScanAddrLen(data) ==
  LET a == ScanSignedHex(data, 2)
      l == ScanSignedHex(data, a.next + 1)
      two == a.ok /\ BufAt(data, a.next) = "," /\ l.ok
  IN [n |-> IF ~a.ok THEN 0 ELSE IF two THEN 2 ELSE 1,
      addr |-> a.val, len |-> l.val]

rspReadAllRegs(s) ==
  LET Reply[n \in 0..RISCV_NUM_REGS] ==
        IF n = 0 THEN <<>>
        ELSE Reply[n - 1] \o val2Hex(s.regs[n - 1], readRegisterSize(n - 1))
  IN putPkt(s, Reply[RISCV_NUM_REGS])

\* The loop of rspWriteAllRegs from register regNum on.  pktSize starts at
\* 0, the offset of the packet's first byte.
\* Iteration n calls writeRegister (n, hex2Val of the eight digits at offset
\* 8 * n); the iterations are written out as one update of the registers and
\* of the log.
WriteAllRegsFrom(s, data, regNum) ==
  LET Value(n) == hex2ValFrom(data, 8 * n + 1, 4)
      todo == IF regNum >= RISCV_NUM_REGS THEN 0 ELSE RISCV_NUM_REGS - regNum
  IN [s EXCEPT
        !.regs = [n \in DOMAIN @ |->
                    IF n >= regNum /\ n < RISCV_NUM_REGS THEN Value(n) ELSE @[n]],
        !.log = @ \o [k \in 1..todo |->
                        Ev("writeRegister",
                           <<regNum + k - 1, Value(regNum + k - 1)>>)]]

rspWriteAllRegs(s, data) == putPkt(WriteAllRegsFrom(s, data, 0), OK)

rspReadMem(s, data) ==
  LET sc == ScanAddrLen(data)
      len == IF sc.len * 2 >= RSP_PKT_SIZE THEN (RSP_PKT_SIZE - 1) \div 2 ELSE sc.len
      n == IF len > 0 THEN len ELSE 0
      \* a byte the target does not give leaves the buffer as it was
      buf == [k \in 1..(2 * n + 1) |->
                LET off == (k - 1) \div 2 IN
                IF k = 2 * n + 1 THEN NUL
                ELSE IF ReadOk(sc.addr + off)
                  THEN IF k % 2 = 1 THEN hex2Char(s.mem[sc.addr + off] \div 16)
                                    ELSE hex2Char(s.mem[sc.addr + off] % 16)
                  ELSE BufAt(data, k)]
  IN IF sc.n # 2 THEN putPkt(s, E01) ELSE putPkt(s, CString(buf))

\* The two nybbles of a byte taken in the other order.
ByteOfNybbles_Swapped(n1, n2) ==
  IF n1 < 0 THEN 255 ELSE (IF n2 < 0 THEN 15 ELSE n2) * 16 + n1

\* (nyb1 << 4) | nyb2 as a uint8_t, char2Hex being -1 for a non-digit.
ByteOfNybbles(n1, n2) ==
  IF n2 < 0 THEN 255 ELSE (IF n1 < 0 THEN 15 ELSE n1) * 16 + n2

rspWriteMem(s, data) ==
  LET sc == ScanAddrLen(data)
      colon == IndexOf(data, ":")
      datLen == Len(data) - colon
      bytes == [k \in 1..(IF sc.len > 0 THEN sc.len ELSE 0) |->
                  ByteOfNybbles(char2Hex(BufAt(data, colon + 2 * k - 1)),
                                char2Hex(BufAt(data, colon + 2 * k)))]
  IN IF sc.n # 2 THEN putPkt(s, E01)
     \* without a ':' symDat is no pointer into the packet and datLen no length
     ELSE IF colon = 0 \/ sc.len * 2 # datLen THEN putPkt(s, E01)
     ELSE putPkt(writeBytes(s, sc.addr, bytes, 1), OK)

rspReadReg(s, data) ==
  LET r == ScanSignedHex(data, 2) IN
  IF ~r.ok THEN putPkt(s, E01)
  ELSE IF readRegisterSize(r.val) < 0 THEN putPkt(s, E01)
  ELSE putPkt(s, val2Hex(s.regs[r.val], readRegisterSize(r.val)))

\* Length of the run of non-space characters of data from index i on.
RECURSIVE WordRun(_, _)
WordRun(data, i) ==
  IF i <= Len(data) /\ data[i] # " " THEN 1 + WordRun(data, i + 1) ELSE 0

rspWriteReg(s, data) ==
  LET r == ScanSignedHex(data, 2)
      hasEq == r.ok /\ BufAt(data, r.next) = "="
      \* "%8s": at most 8 characters, at least one
      got == hasEq /\ WordRun(data, r.next + 1) >= 1
      w == IF WordRun(data, r.next + 1) > 8 THEN 8 ELSE WordRun(data, r.next + 1)
      valstr == SubSeq(data, r.next + 1, r.next + w)
  IN IF ~got THEN putPkt(s, E01)
     ELSE putPkt(writeRegister(s, r.val, hex2ValFrom(valstr, 1, 4)), OK)

\* Utils::rspUnescape: "}x" stands for the byte x ^ 0x20.
Xor32(code) == IF (code \div 32) % 2 = 1 THEN code - 32 ELSE code + 32
RECURSIVE rspUnescape(_, _)
rspUnescape(data, i) ==
  IF i > Len(data) THEN <<>>
  ELSE IF data[i] = "}" /\ i < Len(data)
    THEN <<Xor32(Ord(data[i + 1]))>> \o rspUnescape(data, i + 2)
    ELSE <<Ord(data[i])>> \o rspUnescape(data, i + 1)

rspWriteMemBin(s, data, env) ==
  LET sc == ScanAddrLen(data)
      colon == IndexOf(data, ":")
      bindat == rspUnescape(data, colon + 1)
      newLen == Len(bindat)
      \* len is a size_t: a pattern with the top bit set is above any newLen
      len == IF sc.len >= 0 /\ sc.len < newLen THEN sc.len ELSE newLen
  IN IF sc.n # 2 THEN putPkt(s, E01)
     \* Without a ':' in the packet memchr searches the rest of the buffer,
     \* which holds what earlier packets left: bindat is either past the end
     \* of the packet, where no byte is taken (env.ok), or the null pointer
     \* plus one, which rspUnescape dereferences.
     ELSE IF colon = 0
       THEN IF env.ok THEN putPkt(s, OK) ELSE [s EXCEPT !.pc = "aborted"]
     ELSE putPkt(writeBytes(s, sc.addr, SubSeq(bindat, 1, len), 1), OK)

\* rspRemoveMatchpoint and rspInsertMatchpoint return after their first
\* two statements.
\* rspInsertMatchpoint going on to record the matchpoint and to write the
\* breakpoint instruction.
rspInsertMatchpoint_Inserts(s, data) ==
  putPkt([s EXCEPT !.mpHash = @ \cup {data},
                   !.mem = [@ EXCEPT ![MemBase] = 115]], <<>>)

rspRemoveMatchpoint(s, data) == putPkt(s, <<>>)
rspInsertMatchpoint(s, data) == putPkt(s, <<>>)

rspVpkt(s) == putPkt(s, <<>>)
\* rspSet acknowledging the set request.
rspSet_RepliesOK(s) == putPkt(s, OK)

rspSet(s) == putPkt(s, <<>>)

----------------------------------------------------------------------------
(* Queries and monitor commands *)

\* RspPacket::packHexstr: each character as the two hex digits of its code.
packHexstr(str) ==
  [k \in 1..(2 * Len(str)) |->
     LET code == Ord(str[(k + 1) \div 2]) IN
     IF k % 2 = 1 THEN hex2Char(code \div 16) ELSE hex2Char(code % 16)]

\* RspPacket::packRcmdStr: an "O" packet of hex-encoded text.
packRcmdStr(str) == <<"O">> \o packHexstr(str)

\* Utils::hex2Ascii: the text that pairs of hex digits from index i on encode.
RECURSIVE hex2Ascii(_, _)
hex2Ascii(data, i) ==
  IF i + 1 > Len(data) THEN <<>>
  ELSE <<Chr((char2Hex(data[i]) * 16 + char2Hex(data[i + 1])) % 256)>>
         \o hex2Ascii(data, i + 2)

\* Decimal text of a natural number.
RECURSIVE FmtDec(_)
FmtDec(n) ==
  IF n < 10 THEN <<hex2Char(n)>> ELSE FmtDec(n \div 10) \o <<hex2Char(n % 10)>>

IsDecDigit(c) == c \in {"0","1","2","3","4","5","6","7","8","9"}

RECURSIVE DecRun(_, _)
DecRun(data, i) ==
  IF i <= Len(data) /\ IsDecDigit(data[i]) THEN 1 + DecRun(data, i + 1) ELSE 0

RECURSIVE DecValue(_, _, _)
DecValue(data, i, n) ==
  IF n = 0 THEN 0 ELSE DecValue(data, i, n - 1) * 10 + char2Hex(data[i + n - 1])

RECURSIVE SkipSpaces(_, _)
SkipSpaces(data, i) ==
  IF i <= Len(data) /\ data[i] = " " THEN SkipSpaces(data, i + 1) ELSE i

\* sscanf (cmd, "timeout %d", &timeout): [n, val].
ScanTimeout(cmd) ==
  LET i == SkipSpaces(cmd, 8)
      neg == BufAt(cmd, i) = "-"
      j == IF BufAt(cmd, i) \in {"-", "+"} THEN i + 1 ELSE i
      n == DecRun(cmd, j)
      v == DecValue(cmd, j, n)
  IN [n |-> IF StartsWith(cmd, <<"t","i","m","e","o","u","t">>) /\ n > 0 THEN 1 ELSE 0,
      val |-> IF neg THEN 0 - v ELSE v]

\* Utils::split (cmd, " ", tokens): the runs of non-space characters.
RECURSIVE SplitFrom(_, _)
SplitFrom(data, i) ==
  LET j == SkipSpaces(data, i)
      w == WordRun(data, j)
  IN IF j > Len(data) THEN <<>>
     ELSE <<SubSeq(data, j, j + w - 1)>> \o SplitFrom(data, j + w)
split(data) == SplitFrom(data, 1)

ToLowerChar(c) ==
  IF c # NUL /\ c # NL /\ Ord(c) >= 65 /\ Ord(c) <= 90 THEN Chr(Ord(c) + 32) ELSE c
ToLower(str) == [k \in 1..Len(str) |-> ToLowerChar(str[k])]
\* strcasecmp (a, b) == 0
strcasecmpEq(a, b) == ToLower(a) = ToLower(b)

\* The trace flags, by name.
FlagNames == << <<"r","s","p">>, <<"b","r","e","a","k">> >>
isFlag(name) == \E i \in 1..Len(FlagNames) : FlagNames[i] = name
FlagIndex(name) == CHOOSE i \in 1..Len(FlagNames) : FlagNames[i] = name

\* What the target writes when it accepts a command.
TargetOutput == <<"o","k","\n">>
\* system_clock::now () as "%F %T".
TimeStampText == <<"2","0","1","7","-","0","1","-","0","1"," ","0","0",":","0","0",":","0","0">>

\* The packets of a sequence sent in order.
putPkts(s, pkts, k) ==
  LET todo == IF k > Len(pkts) THEN 0 ELSE Len(pkts) - k + 1 IN
  [s EXCEPT !.log = @ \o [i \in 1..todo |-> Ev("putPkt", pkts[k + i - 1])]]

HelpMess ==
  << <<"T","h","e"," ","f","o","l","l","o","w","i","n","g"," ","g","e","n","e","r","i","c"," ","m","o","n","i","t","o","r"," ","c","o","m","m","a","n","d","s"," ","a","r","e"," ","s","u","p","p","o","r","t","e","d",":","\n">>,
     <<" "," ","h","e","l","p","\n">>,
     <<" "," "," "," ","P","r","o","d","u","c","e"," ","t","h","i","s"," ","m","e","s","s","a","g","e","\n">>,
     <<" "," ","r","e","s","e","t"," ","[","c","o","l","d"," ","|"," ","w","a","r","m","]","\n">>,
     <<" "," "," "," ","R","e","s","e","t"," ","t","h","e"," ","s","i","m","u","l","a","t","o","r"," ","(","d","e","f","a","u","l","t"," ","w","a","r","m",")","\n">>,
     <<" "," ","e","x","i","t","\n">>,
     <<" "," "," "," ","E","x","i","t"," ","t","h","e"," ","G","D","B"," ","s","e","r","v","e","r","\n">>,
     <<" "," ","t","i","m","e","o","u","t"," ","<","i","n","t","e","r","v","a","l",">","\n">>,
     <<" "," "," "," ","M","a","x","i","m","u","m"," ","t","i","m","e"," ","i","n"," ","s","e","c","o","n","d","s"," ","t","a","k","e","n"," ","b","y"," ","c","o","n","t","i","n","u","e"," ","p","a","c","k","e","t","\n">>,
     <<" "," ","c","y","c","l","e","c","o","u","n","t","\n">>,
     <<" "," "," "," ","R","e","p","o","r","t"," ","c","y","c","l","e","s"," ","e","x","e","c","u","t","e","d"," ","s","i","n","c","e"," ","l","a","s","t"," ","r","e","p","o","r","t"," ","a","n","d"," ","s","i","n","c","e"," ","r","e","s","e","t","\n">>,
     <<" "," ","i","n","s","t","r","c","o","u","n","t","\n">>,
     <<" "," "," "," ","R","e","p","o","r","t"," ","i","n","s","t","r","u","c","t","i","o","n","s"," ","e","x","e","c","u","t","e","d"," ","s","i","n","c","e"," ","l","a","s","t"," ","r","e","p","o","r","t"," ","a","n","d"," ","s","i","n","c","e"," ","r","e","s","e","t","\n">>,
     <<" "," ","s","e","t"," ","d","e","b","u","g"," ","<","l","e","v","e","l",">","\n">>,
     <<" "," "," "," ","S","e","t"," ","d","e","b","u","g"," ","m","e","s","s","a","g","i","n","g"," ","i","n"," ","t","a","r","g","e","t"," ","t","o"," ","<","l","e","v","e","l",">","\n">>,
     <<" "," ","s","h","o","w"," ","d","e","b","u","g","\n">>,
     <<" "," "," "," ","S","h","o","w"," ","c","u","r","r","e","n","t"," ","l","e","v","e","l"," ","o","f"," ","d","e","b","u","g"," ","m","e","s","s","a","g","i","n","g"," ","i","n"," ","t","a","r","g","e","t","\n">>,
     <<" "," ","s","e","t"," ","r","e","m","o","t","e","-","d","e","b","u","g"," ","<","0","|","1",">","\n">>,
     <<" "," "," "," ","D","i","s","a","b","l","e","/","e","n","a","b","l","e"," ","t","r","a","c","i","n","g"," ","o","f"," ","R","e","m","o","t","e"," ","S","e","r","i","a","l"," ","P","r","o","t","o","c","o","l"," ","(","R","S","P",")","\n">>,
     <<" "," ","s","h","o","w"," ","r","e","m","o","t","e","-","d","e","b","u","g","\n">>,
     <<" "," "," "," ","S","h","o","w"," ","w","h","e","t","h","e","r"," ","R","S","P"," ","t","r","a","c","i","n","g"," ","i","s"," ","e","n","a","b","l","e","d","\n">>,
     <<" "," ","e","c","h","o"," ","<","m","e","s","s","a","g","e",">","\n">>,
     <<" "," "," "," ","E","c","h","o"," ","<","m","e","s","s","a","g","e",">"," ","o","n"," ","s","t","d","o","u","t"," ","o","f"," ","t","h","e"," ","g","d","b","s","e","r","v","e","r","\n">> >>

\* The O packets of the generic help, in the order sent.
HelpPackets == [k \in 1..Len(HelpMess) |-> packRcmdStr(HelpMess[k])]

TargetHelpHeader ==
  packRcmdStr(<<"T","h","e"," ","f","o","l","l","o","w","i","n","g"," ","t","a","r","g","e","t"," ","s","p","e","c","i","f","i","c"," ","m","o","n","i","t","o","r"," ","c","o","m","m","a","n","d","s"," ","a","r","e"," ","s","u","p","p","o","r","t","e","d",":","\n">>)
NoTargetHelp ==
  packRcmdStr(<<"T","h","e","r","e"," ","a","r","e"," ","n","o"," ","t","a","r","g","e","t"," ","s","p","e","c","i","f","i","c"," ","m","o","n","i","t","o","r"," ","c","o","m","m","a","n","d","s">>)
TargetOutputPacket == packRcmdStr(TargetOutput)

\* The fall-through of rspSetCommand and rspShowCommand to the target.
TargetCommand(s, accepted, failure) ==
  IF accepted THEN putPkt(putPkt(s, TargetOutputPacket), OK)
  ELSE putPkt(s, failure)

E02 == <<"E","0","2">>
E04 == <<"E","0","4">>

\* rspSetCommand testing the value before the flag.
rspSetCommand_ValueFirst(s, cmd, env) ==
  LET tokens == split(cmd)
      isOff == \E v \in {<<"0">>, <<"o","f","f">>, <<"f","a","l","s","e">>} : strcasecmpEq(tokens[3], v)
      isOn == \E v \in {<<"1">>, <<"o","n">>, <<"t","r","u","e">>} : strcasecmpEq(tokens[3], v)
  IN
  IF Len(tokens) = 3 /\ tokens[1] = <<"d","e","b","u","g">>
    THEN IF ~isOff /\ ~isOn THEN putPkt(s, E02)
         ELSE IF ~isFlag(tokens[2]) THEN putPkt(s, E01)
         ELSE putPkt([s EXCEPT !.traceFlags[FlagIndex(tokens[2])] = isOn], OK)
    ELSE TargetCommand(Logged(s, "command", <<"s","e","t"," ">> \o cmd), env.ok, E04)

rspSetCommand(s, cmd, env) ==
  LET tokens == split(cmd) IN
  IF Len(tokens) = 3 /\ tokens[1] = <<"d","e","b","u","g">>
    THEN IF ~isFlag(tokens[2]) THEN putPkt(s, E01)
         ELSE IF \E v \in {<<"0">>, <<"o","f","f">>, <<"f","a","l","s","e">>} : strcasecmpEq(tokens[3], v)
           THEN putPkt([s EXCEPT !.traceFlags[FlagIndex(tokens[2])] = FALSE], OK)
         ELSE IF \E v \in {<<"1">>, <<"o","n">>, <<"t","r","u","e">>} : strcasecmpEq(tokens[3], v)
           THEN putPkt([s EXCEPT !.traceFlags[FlagIndex(tokens[2])] = TRUE], OK)
         ELSE putPkt(s, E02)
    ELSE TargetCommand(Logged(s, "command", <<"s","e","t"," ">> \o cmd), env.ok, E04)

FlagLine(s, i) ==
  FlagNames[i] \o <<":"," ">> \o (IF s.traceFlags[i] THEN <<"O","N">> ELSE <<"O","F","F">>) \o <<NL>>

rspShowCommand(s, cmd, env) ==
  LET tokens == split(cmd)
      All[n \in 0..Len(FlagNames)] ==
        IF n = 0 THEN <<>> ELSE All[n - 1] \o FlagLine(s, n)
  IN IF Len(tokens) = 1 /\ tokens[1] = <<"d","e","b","u","g">>
       THEN putPkt(putPkt(s, packRcmdStr(All[Len(FlagNames)])), OK)
     ELSE IF Len(tokens) = 2 /\ tokens[1] = <<"d","e","b","u","g">>
       THEN IF ~isFlag(tokens[2]) THEN putPkt(s, E01)
            ELSE putPkt(putPkt(s, packRcmdStr(FlagLine(s, FlagIndex(tokens[2])))), OK)
     ELSE TargetCommand(Logged(s, "command", <<"s","h","o","w"," ">> \o cmd), env.ok, E04)

\* cpu->reset (type): on SUCCESS the target is as it was at the start.
reset(s, type, ok, regs0, mem0) ==
  IF ok THEN [Logged(s, "reset", type) EXCEPT !.regs = regs0, !.mem = mem0]
  ELSE [Logged(s, "reset", type) EXCEPT !.pc = "aborted"]

InitRegs == [r \in 0..(RISCV_NUM_REGS - 1) |->
               CASE r = 11 -> 8192 [] r = 12 -> 5 [] OTHER -> 0]

InitMem == [a \in MemBase..(MemBase + MemSize - 1) |->
              IF a = MemBase + NulAt THEN 0 ELSE 97 + (a - MemBase)]

\* rspCommand with an OK reply to exit.
rspCommand_ExitRepliesOK(s, data, env) ==
  LET cmd == hex2Ascii(data, 7) IN
  IF Len(cmd) <= 4 /\ StartsWith(<<"h","e","l","p">>, cmd)
    THEN LET s1 == putPkts(s, HelpPackets, 1)
             s2 == Logged(s1, "command", <<"h","e","l","p">>)
             s3 == IF env.ok
                     THEN putPkt(putPkt(s2, TargetHelpHeader), TargetOutputPacket)
                     ELSE putPkt(s2, NoTargetHelp)
         IN putPkt(s3, OK)
  ELSE IF cmd = <<"r","e","s","e","t">> \/ cmd = <<"r","e","s","e","t"," ","w","a","r","m">>
    THEN LET s1 == reset(s, "WARM", env.ok, InitRegs, InitMem) IN
         IF env.ok THEN putPkt(s1, OK) ELSE s1
  ELSE IF cmd = <<"r","e","s","e","t"," ","c","o","l","d">>
    THEN LET s1 == reset(s, "COLD", env.ok, InitRegs, InitMem) IN
         IF env.ok THEN putPkt(s1, OK) ELSE s1
  ELSE IF cmd = <<"e","x","i","t">>
    THEN putPkt([s EXCEPT !.mExitServer = TRUE], OK)
  ELSE IF ScanTimeout(cmd).n = 1
    THEN putPkt([s EXCEPT !.mTimeout = ScanTimeout(cmd).val], OK)
  ELSE IF cmd = <<"t","i","m","e","s","t","a","m","p">>
    THEN putPkt(putPkt(s, packHexstr(TimeStampText \o <<NL>>)), OK)
  ELSE IF cmd = <<"c","y","c","l","e","c","o","u","n","t">> \/ cmd = <<"i","n","s","t","r","c","o","u","n","t">>
    THEN putPkt(putPkt(s, packHexstr(FmtDec(env.count) \o <<NL>>)), OK)
  ELSE IF StartsWith(cmd, <<"e","c","h","o">>)
    THEN putPkt(Logged(s, "stdout", Tail_(cmd, SkipSpaces(cmd, 5))), OK)
  ELSE IF StartsWith(cmd, <<"s","e","t"," ">>)
    THEN rspSetCommand(s, Tail_(cmd, SkipSpaces(cmd, 5)), env)
  ELSE IF StartsWith(cmd, <<"s","h","o","w"," ">>)
    THEN rspShowCommand(s, Tail_(cmd, SkipSpaces(cmd, 6)), env)
  ELSE TargetCommand(Logged(s, "command", cmd), env.ok, E01)

\* rspCommand: the monitor command in the hex text after "qRcmd,".
rspCommand(s, data, env) ==
  LET cmd == hex2Ascii(data, 7) IN
  IF Len(cmd) <= 4 /\ StartsWith(<<"h","e","l","p">>, cmd)
    THEN LET s1 == putPkts(s, HelpPackets, 1)
             s2 == Logged(s1, "command", <<"h","e","l","p">>)
             s3 == IF env.ok
                     THEN putPkt(putPkt(s2, TargetHelpHeader), TargetOutputPacket)
                     ELSE putPkt(s2, NoTargetHelp)
         IN putPkt(s3, OK)
  ELSE IF cmd = <<"r","e","s","e","t">> \/ cmd = <<"r","e","s","e","t"," ","w","a","r","m">>
    THEN LET s1 == reset(s, "WARM", env.ok, InitRegs, InitMem) IN
         IF env.ok THEN putPkt(s1, OK) ELSE s1
  ELSE IF cmd = <<"r","e","s","e","t"," ","c","o","l","d">>
    THEN LET s1 == reset(s, "COLD", env.ok, InitRegs, InitMem) IN
         IF env.ok THEN putPkt(s1, OK) ELSE s1
  ELSE IF cmd = <<"e","x","i","t">>
    THEN [s EXCEPT !.mExitServer = TRUE]
  ELSE IF ScanTimeout(cmd).n = 1
    THEN putPkt([s EXCEPT !.mTimeout = ScanTimeout(cmd).val], OK)
  ELSE IF cmd = <<"t","i","m","e","s","t","a","m","p">>
    THEN putPkt(putPkt(s, packHexstr(TimeStampText \o <<NL>>)), OK)
  ELSE IF cmd = <<"c","y","c","l","e","c","o","u","n","t">> \/ cmd = <<"i","n","s","t","r","c","o","u","n","t">>
    THEN putPkt(putPkt(s, packHexstr(FmtDec(env.count) \o <<NL>>)), OK)
  ELSE IF StartsWith(cmd, <<"e","c","h","o">>)
    THEN putPkt(Logged(s, "stdout", Tail_(cmd, SkipSpaces(cmd, 5))), OK)
  ELSE IF StartsWith(cmd, <<"s","e","t"," ">>)
    THEN rspSetCommand(s, Tail_(cmd, SkipSpaces(cmd, 5)), env)
  ELSE IF StartsWith(cmd, <<"s","h","o","w"," ">>)
    THEN rspShowCommand(s, Tail_(cmd, SkipSpaces(cmd, 6)), env)
  ELSE TargetCommand(Logged(s, "command", cmd), env.ok, E01)

rspQuery(s, data, env) ==
  IF data = <<"q","C">>
    THEN putPkt(s, <<"Q","C">> \o FmtHex(DUMMY_TID))
  ELSE IF StartsWith(data, <<"q","C","R","C">>)
    THEN putPkt(s, E01)
  ELSE IF data = <<"q","f","T","h","r","e","a","d","I","n","f","o">>
    THEN putPkt(s, <<"m">> \o FmtHex(DUMMY_TID))
  ELSE IF data = <<"q","s","T","h","r","e","a","d","I","n","f","o">>
    THEN putPkt(s, <<"l">>)
  ELSE IF StartsWith(data, <<"q","L">>)
    THEN putPkt(s, <<"q","M","0","0","1">>)
  ELSE IF StartsWith(data, <<"q","R","c","m","d",",">>)
    THEN rspCommand(s, data, env)
  ELSE IF StartsWith(data, <<"q","S","u","p","p","o","r","t","e","d">>)
    THEN putPkt(s, <<"P","a","c","k","e","t","S","i","z","e","=">> \o FmtHex(RSP_PKT_SIZE))
  ELSE IF StartsWith(data, <<"q","S","y","m","b","o","l",":">>)
    THEN putPkt(s, OK)
  ELSE IF StartsWith(data, <<"q","T","h","r","e","a","d","E","x","t","r","a","I","n","f","o",",">>)
    THEN putPkt(s, packHexstr(<<"R","u","n","n","a","b","l","e">>) \o <<"0","0">>)
  ELSE putPkt(s, <<>>)

----------------------------------------------------------------------------
(* The dispatcher *)

\* Picorv32::resume (step, timeout): halted is what mPicorv32Impl->step ()
\* returns, for CONTINUE whether some step returns true before the slice has
\* run out.
Picorv32_resume_WithSyscalls(step, halted) ==
  CASE step = STEP -> IF halted THEN "TIMEOUT" ELSE "INTERRUPTED"
    [] step = CONTINUE -> IF halted THEN "SYSCALL" ELSE "TIMEOUT"
    [] OTHER -> "NONE"

Picorv32_resume(step, halted) ==
  CASE step = STEP -> IF halted THEN "TIMEOUT" ELSE "INTERRUPTED"
    [] step = CONTINUE -> IF halted THEN "INTERRUPTED" ELSE "TIMEOUT"
    [] OTHER -> "NONE"

\* What the Picorv32 target returns when it is made to run.
Picorv32Results ==
  {Picorv32_resume(step, halted) : step \in {STEP, CONTINUE}, halted \in BOOLEAN}

\* What the environment decides while one request is handled: the target's
\* answer to a resume (resType, and a0/a7 at a syscall stop) and whether a
\* Ctrl-C arrives while the target steps.
TargetAnswers ==
  {[resType |-> r, a0 |-> 0, a7 |-> 0] : r \in inputs.results \ {"SYSCALL"}}
    \cup {[resType |-> "SYSCALL", a0 |-> x[1], a7 |-> x[2]] :
             x \in IF "SYSCALL" \in inputs.results THEN inputs.stops ELSE {}}

NoEnv == [resType |-> "NONE", a0 |-> 0, a7 |-> 0, brk |-> FALSE,
          ok |-> FALSE, count |-> 0]

\* Values of the target's cycle and instruction counters.
Counts == {0, 12345}

\* The monitor commands that consult neither the target nor its counters.
AsksNothing(cmd) ==
  \/ cmd = <<"e","x","i","t">>
  \/ cmd = <<"t","i","m","e","s","t","a","m","p">>
  \/ StartsWith(cmd, <<"t","i","m","e","o","u","t"," ">>)
  \/ StartsWith(cmd, <<"e","c","h","o">>)
  \/ StartsWith(cmd, <<"s","e","t"," ","d","e","b","u","g"," ">>)
  \/ StartsWith(cmd, <<"s","h","o","w"," ","d","e","b","u","g">>)

EnvFor(data) ==
  IF Len(data) >= 1 /\ data[1] \in {"s", "S"}
    THEN {[NoEnv EXCEPT !.resType = t.resType, !.a0 = t.a0, !.a7 = t.a7, !.brk = b] :
            t \in TargetAnswers, b \in BOOLEAN}
  ELSE IF StartsWith(data, <<"q","R","c","m","d",",">>)
    THEN LET cmd == hex2Ascii(data, 7) IN
         IF cmd \in {<<"c","y","c","l","e","c","o","u","n","t">>, <<"i","n","s","t","r","c","o","u","n","t">>}
           THEN {[NoEnv EXCEPT !.count = n] : n \in Counts}
         ELSE IF AsksNothing(cmd) THEN {NoEnv}
         ELSE {[NoEnv EXCEPT !.ok = b] : b \in BOOLEAN}
  ELSE IF Len(data) >= 1 /\ data[1] = "X" /\ IndexOf(data, ":") = 0
    THEN {[NoEnv EXCEPT !.ok = b] : b \in BOOLEAN}
  ELSE {NoEnv}

\* pkt->data[0]; the buffer is NUL-terminated, so an empty packet has none.
FirstByte(data) == IF Len(data) >= 1 THEN data[1] ELSE ""

\* The switch of rspClientRequest, after getPkt succeeded.
rspClientRequestSwitch(s, data, env) ==
  LET c == FirstByte(data) IN
  CASE c = "!" -> putPkt(s, OK)
    [] c = "?" -> rspReportException(s, SigTRAP)
    [] c = "A" -> putPkt(s, E01)
    [] c \in {"b", "B"} -> s
    [] c = "F" -> rspSyscallReply(s, data)
    [] c \in {"c", "C"} -> rspContinue(s)
    [] c = "d" -> s
    [] c = "D" -> rspClose(putPkt(s, OK))
    [] c = "g" -> rspReadAllRegs(s)
    [] c = "G" -> rspWriteAllRegs(s, data)
    [] c = "H" -> putPkt(s, OK)
    [] c \in {"i", "I"} -> rspReportException(s, SigTRAP)
    [] c = "k" -> IF s.killBehaviour = EXIT_ON_KILL
                    THEN [s EXCEPT !.mExitServer = TRUE] ELSE s
    [] c = "m" -> rspReadMem(s, data)
    [] c = "M" -> rspWriteMem(s, data)
    [] c = "p" -> rspReadReg(s, data)
    [] c = "P" -> rspWriteReg(s, data)
    [] c = "q" -> rspQuery(s, data, env)
    [] c = "Q" -> rspSet(s)
    [] c \in {"r", "R"} -> s
    [] c \in {"s", "S"} -> rspSingleStep(s, env.resType, env.a0, env.a7, env.brk)
    [] c = "t" -> s
    [] c = "T" -> putPkt(s, OK)
    [] c = "v" -> rspVpkt(s)
    [] c = "X" -> rspWriteMemBin(s, data, env)
    [] c = "z" -> rspRemoveMatchpoint(s, data)
    [] c = "Z" -> rspInsertMatchpoint(s, data)
    [] OTHER -> s

----------------------------------------------------------------------------
(* Requests the client sends and stops the target makes *)

\* The execution requests and the replies to a file-I/O request.
ExecRequests ==
  { <<"c">>, <<"s">>, <<"F","5">>, <<"F","-","1">>, <<"F","-","1",",","9">>, <<"F","5",";","C">>, <<"F","z">>, <<"F">> }

\* "monitor timeout 1".
MonitorTimeout == <<"q","R","c","m","d",",","7","4","6","9","6","d","6","5","6","f","7","5","7","4","2","0","3","1">>

CoreRequests ==
  ExecRequests \cup { <<"?">>, <<"i">>, <<"I">>, <<"D">>, <<"k">>, <<"y">>, MonitorTimeout }

\* <<a0, a7>> at the syscall stops of the target.
A0Values == {0, 1, MemBase, MemBase + NulAt, MemBase + MemSize - 1}
A7Values == SupportedSyscalls \cup {0}
AllStops == A0Values \X A7Values

CoreStops ==
  { <<1, 64>>, <<0, 93>>, <<7, 93>>, <<MemBase, 1024>>, <<0, 0>>, <<3, 94>>,
    <<1, 2000>> }

SyscallRequests == { <<"c">>, <<"F","0">>, <<"k">> }

\* One request at least for every case of the dispatcher.
PacketRequests ==
  { <<"!">>, <<"?">>, <<"A">>, <<"b">>, <<"B">>, <<"c">>, <<"C">>, <<"d">>, <<"D">>, <<"F","5">>, <<"g">>, <<"G">>,
    <<"H">>, <<"i">>, <<"I">>, <<"k">>, <<"m","1","0","0","0",",","2">>, <<"M","1","0","0","0",",","1",":","4","1">>, <<"M","1","0","0","0",",","2",":","4","1">>,
    <<"p","1","1">>, <<"P","1","1","=","4","0","0","0","0","0","0","0">>, <<"r">>, <<"R">>, <<"s">>, <<"S">>, <<"t">>, <<"T">>,
    <<"v","C","o","n","t","?">>, <<"X","1","0","0","0",",","1",":","A">>, <<"z","0",",","1","0","0","0",",","4">>, <<"Z","0",",","1","0","0","0",",","4">>, <<"y">>, <<"x">>, <<>> }

\* One request for every branch of rspQuery.
QueryRequests ==
  { <<"q","C">>, <<"q","C","R","C",":","1","0","0","0",",","4">>, <<"q","f","T","h","r","e","a","d","I","n","f","o">>, <<"q","s","T","h","r","e","a","d","I","n","f","o">>, <<"q","L","1">>,
    <<"q","S","u","p","p","o","r","t","e","d">>, <<"q","S","y","m","b","o","l",":",":">>, <<"q","T","h","r","e","a","d","E","x","t","r","a","I","n","f","o",",","1">>, <<"q","O","f","f","s","e","t","s">> }

\* One request for every branch of rspCommand, rspSetCommand and
\* rspShowCommand.
MonitorRequests ==
  { <<"q","R","c","m","d",",","6","8","6","5","6","c","7","0">>, <<"q","R","c","m","d",",","7","2","6","5","7","3","6","5","7","4">>, <<"q","R","c","m","d",",","7","2","6","5","7","3","6","5","7","4","2","0","7","7","6","1","7","2","6","d">>, <<"q","R","c","m","d",",","7","2","6","5","7","3","6","5","7","4","2","0","6","3","6","f","6","c","6","4">>, <<"q","R","c","m","d",",","6","5","7","8","6","9","7","4">>, MonitorTimeout,
    <<"q","R","c","m","d",",","7","4","6","9","6","d","6","5","6","f","7","5","7","4","2","0","2","d","3","1">>, <<"q","R","c","m","d",",","7","4","6","9","6","d","6","5","7","3","7","4","6","1","6","d","7","0">>, <<"q","R","c","m","d",",","6","3","7","9","6","3","6","c","6","5","6","3","6","f","7","5","6","e","7","4">>, <<"q","R","c","m","d",",","6","9","6","e","7","3","7","4","7","2","6","3","6","f","7","5","6","e","7","4">>, <<"q","R","c","m","d",",","6","5","6","3","6","8","6","f","2","0","6","8","6","9">>,
    <<"q","R","c","m","d",",","7","3","6","5","7","4","2","0","6","4","6","5","6","2","7","5","6","7","2","0","7","2","7","3","7","0","2","0","6","f","6","e">>, <<"q","R","c","m","d",",","7","3","6","5","7","4","2","0","6","4","6","5","6","2","7","5","6","7","2","0","7","2","7","3","7","0","2","0","4","f","4","6","4","6">>, <<"q","R","c","m","d",",","7","3","6","5","7","4","2","0","6","4","6","5","6","2","7","5","6","7","2","0","6","6","6","f","6","f","2","0","3","1">>,
    <<"q","R","c","m","d",",","7","3","6","5","7","4","2","0","6","4","6","5","6","2","7","5","6","7","2","0","7","2","7","3","7","0","2","0","6","d","6","1","7","9","6","2","6","5">>, <<"q","R","c","m","d",",","7","3","6","5","7","4","2","0","6","4","6","5","6","2","7","5","6","7","2","0","6","6","6","f","6","f","2","0","6","d","6","1","7","9","6","2","6","5">>, <<"q","R","c","m","d",",","7","3","6","5","7","4","2","0","6","4","6","5","6","2","7","5","6","7","2","0","6","2","7","2","6","5","6","1","6","b","2","0","5","4","7","2","7","5","6","5">>, <<"q","R","c","m","d",",","7","3","6","5","7","4","2","0","6","6","6","f","6","f">>, <<"q","R","c","m","d",",","7","3","6","8","6","f","7","7","2","0","6","4","6","5","6","2","7","5","6","7">>, <<"q","R","c","m","d",",","7","3","6","8","6","f","7","7","2","0","6","4","6","5","6","2","7","5","6","7","2","0","6","2","7","2","6","5","6","1","6","b">>,
    <<"q","R","c","m","d",",","7","3","6","8","6","f","7","7","2","0","6","4","6","5","6","2","7","5","6","7","2","0","6","6","6","f","6","f">>, <<"q","R","c","m","d",",","7","3","6","8","6","f","7","7","2","0","6","6","6","f","6","f">>, <<"q","R","c","m","d",",","6","6","6","f","6","f">> }

\* z and Z packets of other kinds, and malformed ones.
MatchpointRequests ==
  { <<"z">>, <<"Z","1",",","1","0","0","0",",","2">>, <<"z","2",",","1","0","0","1",",","4">>, <<"Z","9",",","z","z">> }

DispatchRequests ==
  PacketRequests \cup QueryRequests \cup MatchpointRequests
    \cup { <<"q","R","c","m","d",",","6","8","6","5","6","c","7","0">>, <<"q","R","c","m","d",",","6","5","7","8","6","9","7","4">>, <<"q","R","c","m","d",",","6","3","7","9","6","3","6","c","6","5","6","3","6","f","7","5","6","e","7","4">>, <<"q","R","c","m","d",",","7","3","6","8","6","f","7","7","2","0","6","4","6","5","6","2","7","5","6","7">>, <<"q","R","c","m","d",",","6","6","6","f","6","f">> }

\* Memory writes and reads of the same ranges: well formed, with escaped
\* binary data, with data that are no hex digits, with a length that
\* disagrees with the data and with headers that do not parse.
MemoryRequests ==
  { <<"M","1","0","0","0",",","2",":","4","a","6","b">>, <<"M","1","0","0","2",",","2",":","0","A","F","F">>, <<"M","1","0","0","0",",","0",":">>, 
    <<"X","1","0","0","1",",","2",":","A","}","]">>, <<"X","1","0","0","0",",","1",":","z","q">>, <<"X","1","0","0","2",",","3",":","B">>,
    <<"M","1","0","0","0",",","1",":","z","z">>, <<"M","1","0","0","0",",","2",":","4","1">>, <<"M","1","0","0","0",",","1",":","4","1","4","2">>, <<"M","1","0","0","0">>, <<"M","z","z",",","1",":","4","1">>,
    <<"M","1","0","0","0",":","4","1">>, <<"M",",","1",":","4","1">>,
    <<"m","1","0","0","0",",","2">>, <<"m","1","0","0","1",",","2">>, <<"m","1","0","0","2",",","2">>, <<"m","1","0","0","0",",","0">>, <<"m","1","0","0","0",",","1">>,
    <<"m","1","0","0","2",",","1">>, <<"X","1","0","0","0",",","1">>, <<"X","1","0","0","0">>,
    <<"c">>, <<"k">> }

\* A G packet with four bytes for each of the 33 registers: register n is
\* given the bytes n + 1, 0xa0 + n % 16, 0x0b, 0x10 + n, lowest first.
AllRegsDigits ==
  [k \in 1..(8 * RISCV_NUM_REGS) |->
     LET n == (k - 1) \div 8
         byte == CASE ((k - 1) % 8) \div 2 = 0 -> n + 1
                   [] ((k - 1) % 8) \div 2 = 1 -> 160 + (n % 16)
                   [] ((k - 1) % 8) \div 2 = 2 -> 11
                   [] OTHER -> 16 + n
     IN IF k % 2 = 1 THEN hex2Char(byte \div 16) ELSE hex2Char(byte % 16)]

WriteAllRegsRequest == <<"G">> \o AllRegsDigits

\* Register writes and reads: all registers and one register.
RegisterRequests ==
  { WriteAllRegsRequest, <<"G">>, <<"g">>, <<"P","1","1","=","4","0","0","0","0","0","0","0">>, <<"p","1","1">>, <<"p","2","1">>, <<"c">>, <<"k">> }

\* Queries the server knows, queries that only resemble them, unknown
\* queries and set requests.
UnknownQueryRequests ==
  { <<"q">>, <<"q","Z","o","o">>, <<"q","C","1">>, <<"q","C","R">>, <<"q","f","T","h","r","e","a","d","I","n","f","o","2">>, <<"q","s","T","h","r","e","a","d">>, <<"q","R","c","m","d">>,
    <<"q","S","y","m","b","o","l">>, <<"q","T","h","r","e","a","d","E","x","t","r","a","I","n","f","o">>, <<"q","s","u","p","p","o","r","t","e","d">>, <<"Q">>, <<"Q","S","t","a","r","t","N","o","A","c","k","M","o","d","e">>,
    <<"Q","C">>, <<"q","S","u","p","p","o","r","t","e","d",":","m","u","l","t","i","p","r","o","c","e","s","s","+">>, <<"c">>, <<"k">> }

DispatchStops == { <<1, 64>> }

----------------------------------------------------------------------------
(* Initial state: the state after construction, target stalled *)

InitTarget(requests, stops, results) ==
  /\ pc = "loop"
  /\ connected = FALSE
  /\ breakPending = FALSE
  /\ mExitServer = FALSE
  /\ mSyscallContinuation = SYSCALL_NONE_PENDING
  /\ mTimeout = 0
  /\ killBehaviour \in {EXIT_ON_KILL, RESET_ON_KILL}
  /\ traceFlags = [i \in 1..Len(FlagNames) |-> FALSE]
  /\ mpHash = {}
  /\ regs = InitRegs
  /\ mem = InitMem
  /\ now = 0
  /\ timeout_end = 0
  /\ log = <<>>
  /\ inputs = [requests |-> requests, stops |-> stops, results |-> results]

\* A target that may return every member of ResumeRes.
InitWith(requests, stops) == InitTarget(requests, stops, ResumeRes)

\* A client that runs the target and answers its file-I/O requests.
Init == InitWith(CoreRequests, CoreStops)

\* A target that stops at every system call with every argument.
InitSyscall == InitWith(SyscallRequests, AllStops)

\* A client that sends every kind of packet.
InitDispatch == InitWith(DispatchRequests, DispatchStops)

\* A client that runs the target and sends every monitor command.
InitMonitor == InitWith(MonitorRequests \cup { <<"c">> }, DispatchStops)


\* A client that runs the Picorv32 target.
Picorv32Requests ==
  { <<"c">>, <<"s">>, <<"?">>, <<"F","5">>, <<"D">>, <<"k">>, MonitorTimeout }

InitPicorv32 == InitTarget(Picorv32Requests, CoreStops, Picorv32Results)

\* A client that writes and reads memory.
InitMemory == InitWith(MemoryRequests, DispatchStops)

\* A client that writes and reads registers.
InitRegisters == InitWith(RegisterRequests, DispatchStops)

\* A client that sends queries and set requests.
InitQuery == InitWith(QueryRequests \cup UnknownQueryRequests, DispatchStops)

----------------------------------------------------------------------------
(* Actions *)

\* rspServer: while (!mExitServer) fails, return EXIT_SUCCESS.
Exit ==
  /\ pc = "loop"
  /\ mExitServer
  /\ pc' = "exited"
  /\ UNCHANGED <<connected, breakPending, mExitServer, mSyscallContinuation,
                 mTimeout, killBehaviour, traceFlags, mpHash, regs, mem, now,
                 timeout_end, log, inputs>>

\* The reconnect of rspServer without the reset of the continuation.
rspConnect_KeepsContinuation ==
  /\ pc = "loop"
  /\ ~mExitServer
  /\ ~connected
  /\ \E ok \in BOOLEAN :
       IF ok
         THEN Becomes([St EXCEPT !.connected = TRUE])
         ELSE Becomes([St EXCEPT !.pc = "failed"])

\* rspServer: one iteration of while (!rsp->isConnected ()).
rspConnect ==
  /\ pc = "loop"
  /\ ~mExitServer
  /\ ~connected
  /\ \E ok \in BOOLEAN :
       IF ok
         THEN Becomes([St EXCEPT !.connected = TRUE,
                                 !.mSyscallContinuation = SYSCALL_NONE_PENDING])
         ELSE Becomes([St EXCEPT !.pc = "failed"])

\* The read of a request without the test of mExitServer at the loop head.
rspClientRequest_IgnoresExit ==
  /\ pc = "loop"
  /\ connected
  /\ \/ Becomes(rspClose([St EXCEPT !.log = <<Ev("getPktFailed", <<>>)>>]))
     \/ \E data \in inputs.requests : \E env \in EnvFor(data) :
          Becomes(rspClientRequestSwitch(
                    [St EXCEPT !.log = <<Ev("getPkt", data)>>], data, env))

\* rspClientRequest returning on a failed getPkt without rspClose.
rspClientRequest_FailureKeepsOpen ==
  /\ pc = "loop"
  /\ ~mExitServer
  /\ connected
  /\ \/ Becomes([St EXCEPT !.log = <<Ev("getPktFailed", <<>>)>>])
     \/ \E data \in inputs.requests : \E env \in EnvFor(data) :
          Becomes(rspClientRequestSwitch(
                    [St EXCEPT !.log = <<Ev("getPkt", data)>>], data, env))

\* rspClientRequest: getPkt, then the switch on the first byte.
rspClientRequest ==
  /\ pc = "loop"
  /\ ~mExitServer
  /\ connected
  /\ \/ Becomes(rspClose([St EXCEPT !.log = <<Ev("getPktFailed", <<>>)>>]))
     \/ \E data \in inputs.requests : \E env \in EnvFor(data) :
          Becomes(rspClientRequestSwitch(
                    [St EXCEPT !.log = <<Ev("getPkt", data)>>], data, env))

\* rspContinue: one iteration of for (;;): the target runs one slice.
rspContinueLoop ==
  /\ pc = "continue"
  /\ now < MaxNow
  /\ \E t \in TargetAnswers :
       Becomes(rspContinueSwitch(
                 TargetRan(St, CONTINUE, t.resType, t.a0, t.a7), t.resType))

\* The client sends a Ctrl-C.
ClientBreak ==
  /\ pc \in {"loop", "continue"}
  /\ connected
  /\ ~breakPending
  /\ breakPending' = TRUE
  /\ UNCHANGED <<pc, connected, mExitServer, mSyscallContinuation, mTimeout,
                 killBehaviour, traceFlags, mpHash, regs, mem, now,
                 timeout_end, log, inputs>>

Next ==
  \/ Exit
  \/ rspConnect
  \/ rspClientRequest
  \/ rspContinueLoop
  \/ ClientBreak

Spec == Init /\ [][Next]_vars

SpecSyscall == InitSyscall /\ [][Next]_vars

SpecDispatch == InitDispatch /\ [][Next]_vars

SpecMonitor == InitMonitor /\ [][Next]_vars

SpecMemory == InitMemory /\ [][Next]_vars

SpecRegisters == InitRegisters /\ [][Next]_vars

SpecQuery == InitQuery /\ [][Next]_vars

\* The Picorv32 target under a scheduler that lets a continue go on: each
\* call of resume returns, slices run out as the clock advances.
LiveSpecPicorv32 ==
  InitPicorv32 /\ [][Next]_vars /\ WF_vars(rspContinueLoop)

----------------------------------------------------------------------------
(* What the log tells about the request being handled *)

LogOf(op) == SelectSeq(log, LAMBDA e : e.op = op)

\* The packets sent since the request was read, in order.
Sent == [k \in 1..Len(LogOf("putPkt")) |-> LogOf("putPkt")[k].arg]

\* A request was read and its handler has returned to the top loop.
Handled == pc = "loop" /\ log # <<>> /\ log[1].op = "getPkt"

\* The request being handled, or last handled.
Request == log[1].arg

ExecBytes == {"c", "C", "s", "S", "F"}

\* The case labels of rspClientRequest's switch.
RecognisedBytes ==
  {"!", "?", "A", "b", "B", "c", "C", "d", "D", "F", "g", "G", "H", "i", "I",
   "k", "m", "M", "p", "P", "q", "Q", "r", "R", "s", "S", "t", "T", "v", "X",
   "z", "Z"}

\* The stops the target made while the request was handled.
StoppedAt == LogOf("stopped")
LastStop == StoppedAt[Len(StoppedAt)].arg
AtSyscall == StoppedAt # <<>> /\ LastStop[1] = "SYSCALL"
SyscallA0 == LastStop[2]
SyscallA7 == LastStop[3]

IsStopReply(p) == Len(p) = 3 /\ p[1] = "S" /\ IsHexDigit(p[2]) /\ IsHexDigit(p[3])
IsFRequest(p) == Len(p) >= 2 /\ p[1] = "F"
IsExitReply(p) == Len(p) >= 2 /\ p[1] = "W"
StopReplies == SelectSeq(Sent, IsStopReply)

S02 == <<"S","0","2">>
S05 == <<"S","0","5">>

ResumedWith(type) == \E k \in 1..Len(log) : log[k].op = "resume" /\ log[k].arg = type
Resumed == LogOf("resume") # <<>>
RegisterWrites == [k \in 1..Len(LogOf("writeRegister")) |-> LogOf("writeRegister")[k].arg]

\* The step of the top loop that reads the request data and handles it.
Handles(data) ==
  /\ pc = "loop" /\ connected /\ ~mExitServer
  /\ log' # <<>> /\ log'[1].op = "getPkt" /\ log'[1].arg = data
  /\ ~(log' = log /\ breakPending' /\ ~breakPending)

FReplies == {d \in ExecRequests : FirstByte(d) = "F"}
ValidFReplies == {d \in FReplies : SyscallReplyPacket_parse(d).valid}

----------------------------------------------------------------------------
(* Properties *)

\* C1 as claimed: a request other than c/C/s/S/F, once handled, has been
\* answered with exactly one packet.
C1_OneReplyEach ==
  (Handled /\ FirstByte(Request) \notin ExecBytes) => Len(Sent) = 1

\* C1: the request "x", which is neither c, C, s, S nor F, has been handled
\* and no packet was sent for it.
C1_SilentRequest == Handled /\ Request = <<"x">> /\ Sent = <<>>

\* C2 as claimed: a c, s or F request, once handled, has been answered with
\* exactly one stop reply.
C2_OneStopReply ==
  (Handled /\ FirstByte(Request) \in ExecBytes) => Len(StopReplies) = 1

\* C2: a c, s or F request, once handled, has been answered with exactly one
\* packet: E01 if it is an F reply that does not parse; the F request or the
\* W reply of the call if the target last stopped at a supported system call;
\* a stop reply otherwise.
C2_OneFinalPacket ==
  (Handled /\ FirstByte(Request) \in ExecBytes) =>
     /\ Len(Sent) = 1
     /\ IF FirstByte(Request) = "F" /\ ~SyscallReplyPacket_parse(Request).valid
          THEN Sent[1] = E01
        ELSE IF AtSyscall /\ SyscallA7 \in SupportedSyscalls
          THEN IF SyscallA7 = 93 THEN IsExitReply(Sent[1]) ELSE IsFRequest(Sent[1])
        ELSE IsStopReply(Sent[1])

\* C2: a continue has ended at a write system call and the only packet sent
\* is the F request.
C2_Witness ==
  /\ Handled /\ Request = <<"c">>
  /\ AtSyscall /\ SyscallA7 = 64
  /\ Sent = << <<"F","w","r","i","t","e",",","1",",","2","0","0","0",",","5">> >>

\* C3 as claimed: a request whose first byte is no case of the dispatcher,
\* once handled, has been answered with one empty packet.
C3_UnknownGetsEmptyReply ==
  (Handled /\ FirstByte(Request) \notin RecognisedBytes) => Sent = << <<>> >>

\* C3: the unknown request "y" has been handled and nothing was sent.
C3_UnknownIgnored == Handled /\ Request = <<"y">> /\ Sent = <<>>

\* C4 as claimed: when a c, s or F request has been handled and a
\* continuation is pending, the last packet sent is an F request.
C4_PendingOnlyAfterFRequest ==
  (Handled /\ FirstByte(Request) \in ExecBytes /\ Sent # <<>>
     /\ mSyscallContinuation # SYSCALL_NONE_PENDING)
    => IsFRequest(Sent[Len(Sent)])

\* C4: a continue has ended at an unsupported system call; S05 was sent and
\* the continuation is still pending.
C4_PendingAfterTrap ==
  /\ Handled /\ Request = <<"c">>
  /\ AtSyscall /\ SyscallA7 \notin SupportedSyscalls
  /\ Sent = <<S05>>
  /\ mSyscallContinuation = SYSCALL_THEN_FINISH_CONTINUE

\* C5: when the target last stopped at system call 93 (exit), the only
\* packet sent is W followed by a0 in hex, no stop reply, and no
\* continuation is pending.
C5_ExitSyscall ==
  (Handled /\ AtSyscall /\ SyscallA7 = 93) =>
     /\ Sent = << <<"W">> \o FmtHex(SyscallA0) >>
     /\ StopReplies = <<>>
     /\ mSyscallContinuation = SYSCALL_NONE_PENDING

\* C5: a step has ended at exit (7); W7 was sent.
C5_Witness ==
  /\ Handled /\ Request = <<"s">>
  /\ AtSyscall /\ SyscallA7 = 93 /\ SyscallA0 = 7
  /\ Sent = << <<"W","7">> >>
  /\ mSyscallContinuation = SYSCALL_NONE_PENDING

\* C6: when the target last stopped at a system call that is none of the
\* supported ones, the only packet sent is the stop reply S05.
C6_UnknownSyscallTraps ==
  (Handled /\ AtSyscall /\ SyscallA7 \notin SupportedSyscalls) => Sent = <<S05>>

\* C6: a continue has ended at system call 2000 and S05 was sent.
C6_Witness ==
  /\ Handled /\ Request = <<"c">>
  /\ AtSyscall /\ SyscallA7 = 2000
  /\ Sent = <<S05>>

\* The table of section 4.5.3: name, argument registers, and whether the
\* first argument points to a path.
SyscallTable ==
  [n \in SupportedSyscalls \ {93} |->
     CASE n = 57 -> [name |-> <<"c","l","o","s","e">>, args |-> <<10>>, path |-> FALSE]
       [] n = 62 -> [name |-> <<"l","s","e","e","k">>, args |-> <<10, 11, 12>>, path |-> FALSE]
       [] n = 63 -> [name |-> <<"r","e","a","d">>, args |-> <<10, 11, 12>>, path |-> FALSE]
       [] n = 64 -> [name |-> <<"w","r","i","t","e">>, args |-> <<10, 11, 12>>, path |-> FALSE]
       [] n = 80 -> [name |-> <<"f","s","t","a","t">>, args |-> <<10, 11>>, path |-> FALSE]
       [] n = 169 -> [name |-> <<"g","e","t","t","i","m","e","o","f","d","a","y">>, args |-> <<10, 11>>, path |-> FALSE]
       [] n = 1024 -> [name |-> <<"o","p","e","n">>, args |-> <<10, 11, 12>>, path |-> TRUE]
       [] n = 1026 -> [name |-> <<"u","n","l","i","n","k">>, args |-> <<10>>, path |-> TRUE]
       [] n = 1038 -> [name |-> <<"s","t","a","t">>, args |-> <<10, 11>>, path |-> TRUE]]

\* A NUL-terminated string lies at addr, with k bytes before its NUL.
StringAt(addr, k) ==
  /\ \A j \in 0..k : ReadOk(addr + j)
  /\ \A j \in 0..(k - 1) : mem[addr + j] # 0
  /\ mem[addr + k] = 0

\* The bytes the server reads from addr: up to and including the first NUL,
\* or as many as the target gives.
BytesRead(addr) ==
  IF \E k \in 0..MemSize : StringAt(addr, k)
    THEN 1 + (CHOOSE k \in 0..MemSize : StringAt(addr, k))
    ELSE Cardinality({j \in 0..MemSize : \A i \in 0..j : ReadOk(addr + i)})

\* The request the table prescribes for call n, given the registers.
TableRequest(n) ==
  LET row == SyscallTable[n]
      Arg(k) == IF k = 1 /\ row.path
                  THEN FmtHex(regs[10]) \o <<"/">> \o FmtHex(BytesRead(regs[10]))
                  ELSE FmtHex(regs[row.args[k]])
      Args[k \in 1..Len(row.args)] ==
        IF k = 1 THEN Arg(1) ELSE Args[k - 1] \o <<",">> \o Arg(k)
  IN <<"F">> \o row.name \o <<",">> \o Args[Len(row.args)]

\* C7: when the target last stopped at a supported system call other than
\* exit, the packet sent is the table's request: the name, then the argument
\* registers in order as lowercase hex, a path argument followed by "/" and
\* the number of bytes read from it up to and including the first NUL.
C7_RequestFormat ==
  (Handled /\ AtSyscall /\ SyscallA7 \in SupportedSyscalls \ {93}) =>
     /\ Sent = << TableRequest(SyscallA7) >>
     /\ \A k \in 1..Len(Sent[1]) :
          Sent[1][k] \notin {"A", "B", "C", "D", "E", "x", "X"}

\* C7: an open system call whose path has two bytes before its NUL has been
\* requested with length 3.
C7_Witness ==
  /\ Handled /\ AtSyscall /\ SyscallA7 = 1024 /\ SyscallA0 = MemBase
  /\ StringAt(MemBase, 2)
  /\ Sent = << <<"F","o","p","e","n",",","1","0","0","0","/","3",",","2","0","0","0",",","5">> >>

\* C8 as claimed: the step that handles a valid F reply without the Ctrl-C
\* flag sends S05 and does not resume the target if the continuation it
\* finds is FINISH_STEPPING or NONE_PENDING, and enters the continue loop if
\* it is FINISH_CONTINUE.
C8_DispositionByContinuation ==
  [][\A d \in ValidFReplies :
       (Handles(d) /\ ~SyscallReplyPacket_parse(d).hasCtrlC) =>
          IF mSyscallContinuation = SYSCALL_THEN_FINISH_CONTINUE
            THEN pc' = "continue"
            ELSE pc' = "loop" /\ Sent' = <<S05>> /\ ~Resumed']_vars

\* C8: the step that handles a valid F reply without the Ctrl-C flag sends
\* S05 and does not resume the target if the continuation it finds is
\* FINISH_STEPPING or NONE_PENDING; if it is FINISH_CONTINUE it enters
\* rspContinue, which goes to the continue loop unless a Ctrl-C is pending,
\* and then stops the target and sends S02.
C8_DispositionByContinuationAndBreak ==
  [][\A d \in ValidFReplies :
       (Handles(d) /\ ~SyscallReplyPacket_parse(d).hasCtrlC) =>
          IF mSyscallContinuation = SYSCALL_THEN_FINISH_CONTINUE
            THEN IF breakPending
                   THEN /\ pc' = "loop" /\ Sent' = <<S02>>
                        /\ ResumedWith(STOP)' /\ ~ResumedWith(CONTINUE)'
                   ELSE pc' = "continue" /\ Sent' = <<>> /\ ~Resumed'
            ELSE pc' = "loop" /\ Sent' = <<S05>> /\ ~Resumed']_vars

\* C8: an F reply without the Ctrl-C flag has been handled by stopping the
\* target and sending S02.
C8_Witness ==
  /\ Handled /\ Request = <<"F","5">>
  /\ ResumedWith(STOP) /\ ~ResumedWith(CONTINUE)
  /\ Sent = <<S02>>

\* C9: the step that handles a valid F reply writes the return code to
\* register a0 if it is not -1 and writes no other register; if it is -1 it
\* writes no register.
C9_WritesOnlyA0 ==
  [][\A d \in ValidFReplies :
       Handles(d) =>
          LET rc == SyscallReplyPacket_parse(d).retcode IN
          IF rc # -1
            THEN /\ RegisterWrites' = << <<10, rc>> >>
                 /\ regs' = [regs EXCEPT ![10] = rc]
            ELSE RegisterWrites' = <<>> /\ regs' = regs]_vars

\* C9: the reply F5 has been handled after a write call with a0 = 1, and a0
\* is 5.
C9_Witness ==
  /\ Handled /\ Request = <<"F","5">>
  /\ RegisterWrites = << <<10, 5>> >>
  /\ regs[10] = 5 /\ regs[17] = 64

\* C10: the step that handles an F reply that does not parse sends E01 and
\* nothing else, calls neither the connection nor the target otherwise, and
\* leaves the registers as they were.
C10_InvalidReplyE01Only ==
  [][\A d \in FReplies \ ValidFReplies :
       Handles(d) =>
          /\ log' = << Ev("getPkt", d), Ev("putPkt", E01) >>
          /\ regs' = regs /\ mem' = mem
          /\ pc' = "loop"]_vars

\* C10: the reply Fz has been handled: E01 was sent, no register written, no
\* resume, no stop reply.
C10_Witness ==
  /\ Handled /\ Request = <<"F","z">>
  /\ Sent = <<E01>> /\ RegisterWrites = <<>> /\ ~Resumed /\ StopReplies = <<>>

\* C11: the step that handles a valid F reply with the Ctrl-C flag sends S02
\* and nothing else, does not resume the target and returns to the top loop
\* with no continuation pending, whatever continuation it finds.
C11_CtrlCFlagStops ==
  [][\A d \in ValidFReplies :
       (Handles(d) /\ SyscallReplyPacket_parse(d).hasCtrlC) =>
          /\ pc' = "loop"
          /\ Sent' = <<S02>>
          /\ ~Resumed'
          /\ mSyscallContinuation' = SYSCALL_NONE_PENDING]_vars

\* C11: the reply F5;C to the write call of a continue has been handled: S02
\* was sent and the target was not resumed.
C11_Witness ==
  /\ Handled /\ Request = <<"F","5",";","C">>
  /\ regs[17] = 64 /\ regs[10] = 5
  /\ Sent = <<S02>> /\ ~Resumed

\* C12: every step that brings the connection up leaves no continuation
\* pending and handles no request, whatever continuation the closed session
\* left; and no request is handled while the connection is down.
C12_ConnectResetsContinuation ==
  [][/\ (~connected /\ connected') =>
          (mSyscallContinuation' = SYSCALL_NONE_PENDING /\ log' = log)
     /\ ~connected => log' = log]_vars

\* C12: a session that had sent the F request of a write call was ended by D,
\* leaving FINISH_CONTINUE pending; the server has connected again and no
\* continuation is pending.
C12_Witness ==
  /\ pc = "loop" /\ connected
  /\ log = << Ev("getPkt", <<"D">>), Ev("putPkt", OK), Ev("rspClose", <<>>) >>
  /\ regs[17] = 64 /\ regs[10] = 1
  /\ mSyscallContinuation = SYSCALL_NONE_PENDING

S18 == <<"S","1","8">>

\* The slices of the continue being handled that the target used up.
TimeoutSlices ==
  Cardinality({k \in 1..Len(StoppedAt) : StoppedAt[k].arg[1] = "TIMEOUT"})

\* All the target did while the request was handled was to use up slices.
NeverHalted ==
  StoppedAt # <<>> /\ \A k \in 1..Len(StoppedAt) : StoppedAt[k].arg[1] = "TIMEOUT"

\* C13: with a user timeout T > 0, a continue is in progress only while at
\* most T has passed since it was entered; and when a continue whose target
\* only used up slices has ended after more than T, it ended with the XCPU
\* stop reply S18 after a STOP, no later than T plus one slice.
C13_XcpuWithinTimeoutPlusSlice ==
  mTimeout > 0 =>
    /\ pc = "continue" =>
         /\ now <= Ticks(mTimeout)
         /\ TimeoutSlices * InterruptTimeout = now
    /\ (Handled /\ NeverHalted /\ TimeoutSlices * InterruptTimeout > Ticks(mTimeout)) =>
         /\ TimeoutSlices * InterruptTimeout <= Ticks(mTimeout) + InterruptTimeout
         /\ Sent = <<S18>>
         /\ ResumedWith(STOP)

\* C13: with a timeout of one second a continue has run for eleven slices
\* and ended with S18.
C13_Witness ==
  /\ Handled /\ Request = <<"c">>
  /\ mTimeout = 1 /\ NeverHalted /\ TimeoutSlices = 11
  /\ Sent = <<S18>>

\* A slice of a continue ends in this step, with a break pending since before
\* its end and one of the four results the loop handles.
SliceEndsWithBreakPending ==
  /\ pc = "continue" /\ breakPending
  /\ Len(StoppedAt') = Len(StoppedAt) + 1
  /\ LastStop'[1] \in {"SYSCALL", "STEPPED", "INTERRUPTED", "TIMEOUT"}

\* C14 as claimed: a slice that ends with a break pending ends the continue
\* with the stop reply S02.
C14_BreakEndsWithInt ==
  [][SliceEndsWithBreakPending =>
       (pc' = "loop" /\ Sent' # <<>> /\ Sent'[Len(Sent')] = S02)]_vars

\* C14: a slice that ends with a break pending ends the continue.  If the
\* slice returned TIMEOUT and the user timeout has not expired, the server
\* stops the target and sends S02, and the break is consumed.  Otherwise it
\* sends the packet of the slice's own result (S18 on expiry, S05, or the
\* request of a system call), not S02, and the break stays pending.
C14_BreakEndsContinue ==
  [][SliceEndsWithBreakPending =>
       /\ pc' = "loop"
       /\ Len(Sent') = Len(Sent) + 1
       /\ IF LastStop'[1] = "TIMEOUT" /\ ~(mTimeout # 0 /\ timeout_end < now + InterruptTimeout)
            THEN /\ Sent'[Len(Sent')] = S02
                 /\ log'[Len(log') - 1] = Ev("resume", STOP)
                 /\ ~breakPending'
            ELSE /\ Sent'[Len(Sent')] # S02
                 /\ breakPending']_vars

\* C14: a break arrived while a continue was slicing, and the continue has
\* ended with a STOP and S02 at the end of that slice.
C14_Witness ==
  /\ Handled /\ Request = <<"c">>
  /\ NeverHalted /\ TimeoutSlices = 2
  /\ log[Len(log) - 2] = Ev("haveBreak", TRUE)
  /\ log[Len(log) - 1] = Ev("resume", STOP)
  /\ Sent = <<S02>>

\* C15: while the user timeout is 0, a slice that returns TIMEOUT with no
\* break pending leaves the continue in progress and sends nothing, however
\* many slices came before; no S18 is ever sent, and the target is stopped
\* only after a poll that found a break.
C15_ZeroTimeoutNeverExpires ==
  [][mTimeout = 0 =>
       /\ (/\ pc = "continue" /\ ~breakPending
           /\ Len(StoppedAt') = Len(StoppedAt) + 1
           /\ LastStop'[1] = "TIMEOUT")
            => (pc' = "continue" /\ Sent' = Sent /\ ~ResumedWith(STOP)')
       /\ \A k \in 1..Len(Sent') : Sent'[k] # S18
       /\ \A k \in 1..Len(log') :
            (log'[k].op = "resume" /\ log'[k].arg = STOP)
              => (log'[k - 1].op = "haveBreak" /\ log'[k - 1].arg)]_vars

\* C15: with the user timeout 0 a continue is still in progress after more
\* slices than a timeout of one second allows.
C15_Witness ==
  /\ pc = "continue" /\ mTimeout = 0
  /\ NeverHalted /\ TimeoutSlices * InterruptTimeout > Ticks(1) + InterruptTimeout
  /\ Sent = <<>>

\* C16: in every reachable state the server's timeout is at least 0.
C16_TimeoutNonNegative == mTimeout >= 0

\* C16: the monitor command "timeout -1" has been answered OK and a continue
\* of a target that never halts has then ended with S18 after one slice.
C16_NegativeTimeout ==
  /\ Handled /\ Request = <<"c">>
  /\ mTimeout = 0 - 1
  /\ NeverHalted /\ TimeoutSlices = 1
  /\ Sent = <<S18>>

ReadFails ==
  /\ pc = "loop" /\ connected /\ ~mExitServer
  /\ log' # <<>> /\ log'[1].op = "getPktFailed"
  /\ ~(breakPending' /\ ~breakPending)

\* C18: a failed getPkt closes the connection, sends no packet and changes
\* nothing else of the server or the target; while the connection is down
\* no request is read, and the only step of the loop is the connect.
C18_ReadFailureClosesOnly ==
  [][/\ ReadFails =>
          /\ ~connected' /\ pc' = "loop"
          /\ log' = <<Ev("getPktFailed", <<>>), Ev("rspClose", <<>>)>>
          /\ UNCHANGED <<mExitServer, mSyscallContinuation, mTimeout,
                         killBehaviour, traceFlags, mpHash, regs, mem>>
     /\ ~connected =>
          /\ log' = log
          /\ (pc = "loop" /\ ~mExitServer)
               => (pc' = "failed" \/ (pc' = "loop" /\ connected'))]_vars

\* C18: a read has failed while a system call was awaiting its F reply and a
\* timeout was set; the connection is down and both are as they were.
C18_Witness ==
  /\ pc = "loop" /\ ~connected
  /\ log = <<Ev("getPktFailed", <<>>), Ev("rspClose", <<>>)>>
  /\ mSyscallContinuation = SYSCALL_THEN_FINISH_CONTINUE
  /\ mTimeout = 1

MonitorExit == <<"q","R","c","m","d",",","6","5","7","8","6","9","7","4">>

\* C19: a request whose first byte is k sends nothing, does not resume the
\* target and changes nothing but mExitServer, which it sets when the kill
\* behaviour is EXIT_ON_KILL and leaves alone when it is RESET_ON_KILL; the
\* monitor command exit sets mExitServer, sends nothing and changes nothing
\* else.
C19_KillAndExit ==
  [][\A d \in inputs.requests :
       (Handles(d) /\ (FirstByte(d) = "k" \/ d = MonitorExit)) =>
         /\ log' = <<Ev("getPkt", d)>>
         /\ mExitServer' = (d = MonitorExit \/ killBehaviour = EXIT_ON_KILL)
         /\ UNCHANGED <<pc, connected, breakPending, mSyscallContinuation,
                        mTimeout, killBehaviour, traceFlags, mpHash, regs,
                        mem, now, timeout_end>>]_vars

\* C19: a k has been handled with RESET_ON_KILL while a system call was
\* awaiting its F reply; the server goes on.
C19_Witness ==
  /\ Handled /\ Request = <<"k">>
  /\ killBehaviour = RESET_ON_KILL /\ ~mExitServer
  /\ mSyscallContinuation = SYSCALL_THEN_FINISH_CONTINUE
  /\ Sent = <<>>

MatchpointBytes == {"z", "Z"}

HexOfBytes(b) ==
  [k \in 1..(2 * Len(b)) |->
     HexChars[(IF k % 2 = 1 THEN b[(k + 1) \div 2] \div 16
                            ELSE b[k \div 2] % 16) + 1]]

\* The bytes an M packet carries after its colon, for hex digits.
HexPairs(data, colon) ==
  [k \in 1..((Len(data) - colon) \div 2) |->
     char2Hex(data[colon + 2 * k - 1]) * 16 + char2Hex(data[colon + 2 * k])]

AllHexAfter(data, colon) ==
  \A k \in (colon + 1)..Len(data) : IsHexDigit(data[k])

\* The byte sequence a write packet carries: for M the decoded digits, for X
\* the unescaped data cut to the length the header gives.
Carried(w) ==
  LET colon == IndexOf(w, ":") IN
  IF FirstByte(w) = "M" THEN HexPairs(w, colon)
  ELSE LET bin == rspUnescape(w, colon + 1)
           len == ScanAddrLen(w).len
       IN IF len >= 0 /\ len < Len(bin) THEN SubSeq(bin, 1, len) ELSE bin

\* The last request handled was a write of Carried(Request), answered OK,
\* every byte of which the target accepted.
WroteOK ==
  /\ Handled /\ FirstByte(Request) \in {"M", "X"}
  /\ Sent = <<OK>>
  /\ IndexOf(Request, ":") # 0
  /\ FirstByte(Request) = "M" => AllHexAfter(Request, IndexOf(Request, ":"))
  /\ \A k \in 1..Len(Carried(Request)) :
       ReadOk(ScanAddrLen(Request).addr + k - 1)
  /\ 2 * Len(Carried(Request)) < RSP_PKT_SIZE

\* The m packet for address a and length n.
ReadRequest(a, n) == <<"m">> \o FmtHex(a) \o <<",">> \o FmtHex(n)

\* C21: when an M or X packet carrying the bytes b for address a has been
\* answered OK and the target accepted them all, the m packet for (a, Len(b))
\* that is handled next is answered with the hex encoding of exactly b.
C21_MemoryRoundTrip ==
  [][WroteOK =>
       LET a == ScanAddrLen(Request).addr
           b == Carried(Request)
       IN Handles(ReadRequest(a, Len(b))) =>
            (Sent' = <<HexOfBytes(b)>> /\ mem' = mem /\ pc' = "loop")]_vars

\* C21: the escaped binary write X1001,2:A}] has been read back as 417d.
C21_Witness ==
  /\ Handled /\ Request = <<"m","1","0","0","1",",","2">>
  /\ Sent = <<<<"4","1","7","d">>>>
  /\ mem[MemBase + 1] = 65 /\ mem[MemBase + 2] = 125

\* The number of hex digits an M packet supplies after its colon.
HexDigitsSupplied(d) ==
  Cardinality({k \in (IndexOf(d, ":") + 1)..Len(d) : IsHexDigit(d[k])})

\* An M packet whose header sscanf does not convert twice, or that supplies
\* a number of hex digits other than 2 * len.
BadWrite(d) ==
  /\ FirstByte(d) = "M"
  /\ \/ ScanAddrLen(d).n # 2
     \/ /\ IndexOf(d, ":") # 0
        /\ HexDigitsSupplied(d) # 2 * ScanAddrLen(d).len

\* C22: an M packet whose header does not parse, or that supplies a number
\* of hex digits other than 2 * len, is answered E01 alone, nothing is written
\* to the target and memory is unchanged.
C22_BadWriteRejected ==
  [][\A d \in inputs.requests :
       (Handles(d) /\ BadWrite(d)) =>
         /\ log' = <<Ev("getPkt", d), Ev("putPkt", E01)>>
         /\ mem' = mem /\ regs' = regs /\ pc' = "loop"]_vars

\* C22: the write M1000,1:zz, which supplies no hex digit, has been answered
\* OK and the byte 0xff has been written.
C22_NoDigitsWritten ==
  /\ Handled /\ Request = <<"M","1","0","0","0",",","1",":","z","z">>
  /\ Sent = <<OK>>
  /\ mem[MemBase] = 255

\* The last request handled was a G packet with digits for all 33 registers,
\* answered OK.
WroteAllRegsOK ==
  /\ Handled /\ FirstByte(Request) = "G"
  /\ Len(Request) = 1 + 8 * RISCV_NUM_REGS
  /\ \A k \in 2..Len(Request) : IsHexDigit(Request[k])
  /\ Sent = <<OK>>

\* C23: when a G packet with values for all 33 registers has been answered
\* OK, the g packet handled next is answered with exactly the digits the G
\* packet carried, register by register.
C23_RegisterRoundTrip ==
  [][(WroteAllRegsOK /\ Handles(<<"g">>)) =>
       /\ Len(Sent') = 1
       /\ \A id \in 0..(RISCV_NUM_REGS - 1) :
            SubSeq(Sent'[1], 8 * id + 1, 8 * id + 8)
              = ToLower(SubSeq(Request, 8 * id + 2, 8 * id + 9))]_vars

\* C23: after the G packet, g has answered with other digits than were
\* written: register 0 holds the value of "G" and the first seven digits.
C23_ShiftedByOne ==
  /\ Handled /\ Request = <<"g">>
  /\ regs[0] = hex2ValFrom(WriteAllRegsRequest, 1, 4)
  /\ regs[1] = hex2ValFrom(WriteAllRegsRequest, 9, 4)
  /\ Sent # <<AllRegsDigits>>
  /\ SubSeq(Sent[1], 1, 8) # SubSeq(AllRegsDigits, 1, 8)

\* The queries the server answers: three exact texts and six prefixes.
RecognisedQuery(d) ==
  \/ d \in { <<"q","C">>, <<"q","f","T","h","r","e","a","d","I","n","f","o">>, <<"q","s","T","h","r","e","a","d","I","n","f","o">> }
  \/ \E p \in { <<"q","C","R","C">>, <<"q","L">>, <<"q","R","c","m","d",",">>, <<"q","S","u","p","p","o","r","t","e","d">>, <<"q","S","y","m","b","o","l",":">>,
                <<"q","T","h","r","e","a","d","E","x","t","r","a","I","n","f","o",",">> } : StartsWith(d, p)

\* C24: a q packet that is none of the recognised queries, and every Q
\* packet, gets exactly one reply, the empty packet, and nothing but the
\* request log changes; a packet that begins with qSupported is answered
\* PacketSize= and the buffer size in hex.
C24_UnknownQueriesEmpty ==
  [][\A d \in inputs.requests :
       Handles(d) =>
         /\ (FirstByte(d) = "Q" \/ (FirstByte(d) = "q" /\ ~RecognisedQuery(d)))
              => /\ log' = <<Ev("getPkt", d), Ev("putPkt", <<>>)>>
                 /\ UNCHANGED <<pc, connected, breakPending, mExitServer,
                                mSyscallContinuation, mTimeout, killBehaviour,
                                traceFlags, mpHash, regs, mem, now,
                                timeout_end>>
         /\ StartsWith(d, <<"q","S","u","p","p","o","r","t","e","d">>)
              => Sent' = <<<<"P","a","c","k","e","t","S","i","z","e","=">> \o FmtHex(RSP_PKT_SIZE)>>]_vars

\* C24: the unknown query qZoo has been answered with the empty packet while
\* a system call was awaiting its F reply.
C24_Witness ==
  /\ Handled /\ Request = <<"q","Z","o","o">>
  /\ Sent = << <<>> >>
  /\ mSyscallContinuation = SYSCALL_THEN_FINISH_CONTINUE

\* The monitor command a qRcmd packet carries.
MonitorCommand(d) == hex2Ascii(d, 7)

\* The words of a monitor command "set debug <flag> <value>", or <<>>.
SetDebugWords(d) ==
  LET cmd == MonitorCommand(d)
      words == split(cmd)
  IN IF /\ StartsWith(d, <<"q","R","c","m","d",",">>) /\ StartsWith(cmd, <<"s","e","t"," ">>)
        /\ Len(words) = 4 /\ words[2] = <<"d","e","b","u","g">>
       THEN words ELSE <<>>

FalseWords == { <<"0">>, <<"o","f","f">>, <<"f","a","l","s","e">> }
TrueWords == { <<"1">>, <<"o","n">>, <<"t","r","u","e">> }

\* C25: for set debug <flag> <value>, an unknown flag is answered E01 whatever
\* the value, a known flag with a value that is none of 0, 1, on, off, true,
\* false in any case is answered E02, and both leave the trace flags as they
\* were; otherwise the named flag alone takes the value and the answer is OK.
C25_SetDebug ==
  [][\A d \in inputs.requests :
       (Handles(d) /\ SetDebugWords(d) # <<>>) =>
         LET flag == SetDebugWords(d)[3]
             value == ToLower(SetDebugWords(d)[4])
         IN IF flag \notin {FlagNames[i] : i \in 1..Len(FlagNames)}
              THEN Sent' = <<E01>> /\ traceFlags' = traceFlags
            ELSE IF value \notin FalseWords \cup TrueWords
              THEN Sent' = <<E02>> /\ traceFlags' = traceFlags
            ELSE /\ Sent' = <<OK>>
                 /\ \A i \in 1..Len(FlagNames) :
                      traceFlags'[i] = IF FlagNames[i] = flag
                                         THEN value \in TrueWords
                                         ELSE traceFlags[i]]_vars

\* C25: set debug break True has been answered OK and has set the break
\* flag, the rsp flag staying off.
C25_Witness ==
  /\ Handled /\ Request = <<"q","R","c","m","d",",","7","3","6","5","7","4","2","0","6","4","6","5","6","2","7","5","6","7","2","0","6","2","7","2","6","5","6","1","6","b","2","0","5","4","7","2","7","5","6","5">>
  /\ Sent = <<OK>>
  /\ traceFlags = <<FALSE, TRUE>>

\* The commands handed to the target's command () for the request.
Forwarded == [k \in 1..Len(LogOf("command")) |-> LogOf("command")[k].arg]

\* C26: a monitor command other than help that is forwarded to the target is
\* forwarded once and whole, and is answered either with the target's output
\* as an O packet followed by OK, or with E04 alone.
C26_FallThroughE04 ==
  [][\A d \in inputs.requests :
       (/\ Handles(d) /\ StartsWith(d, <<"q","R","c","m","d",",">>)
        /\ MonitorCommand(d) # <<"h","e","l","p">>
        /\ Forwarded' # <<>>) =>
         /\ Forwarded' = <<MonitorCommand(d)>>
         /\ Sent' \in { <<packRcmdStr(TargetOutput), OK>>, <<E04>> }]_vars

\* C26: the monitor command foo has been forwarded to the target, which
\* rejected it, and the answer is E01.
C26_TopLevelE01 ==
  /\ Handled /\ Request = <<"q","R","c","m","d",",","6","6","6","f","6","f">>
  /\ Forwarded = <<<<"f","o","o">>>>
  /\ Sent = <<E01>>

\* S and the two lowercase hex digits of a signal number.
StopReplyOf(sig) == <<"S", HexChars[(sig \div 16) + 1], HexChars[(sig % 16) + 1]>>

FReplyInHand == log # <<>> /\ log[1].op = "getPkt" /\ FirstByte(Request) = "F"

\* C28: from the moment an F reply is taken in hand no continuation is
\* pending: none while its continue is about to resume the target or is
\* running it, and none once it is handled, whether the reply was invalid,
\* carried the Ctrl-C flag, finished a step or finished a continue; except
\* that a continue it resumed and that stopped at a new system call has
\* returned with the continuation that call set.
C28_ContinuationResetFirst ==
  FReplyInHand =>
    IF AtSyscall
      THEN /\ pc = "loop"
           /\ mSyscallContinuation =
                IF LastStop[3] = 93 THEN SYSCALL_NONE_PENDING
                ELSE SYSCALL_THEN_FINISH_CONTINUE
      ELSE mSyscallContinuation = SYSCALL_NONE_PENDING

\* C28: the continue restarted by the reply F5 has resumed the target and is
\* still running it, with no continuation pending.
C28_Witness ==
  /\ FReplyInHand /\ Request = <<"F","5">>
  /\ pc = "continue"
  /\ ResumedWith(CONTINUE)
  /\ mSyscallContinuation = SYSCALL_NONE_PENDING

\* The target is resumed, to step or to continue, by entry k of the log l.
RunsTarget(l, k) == l[k].op = "resume" /\ l[k].arg \in {STEP, CONTINUE}

\* Every resume (STEP) and resume (CONTINUE) of the log l comes straight
\* after a poll of haveBreak.
PolledBeforeEachResume(l) ==
  \A k \in 1..Len(l) : RunsTarget(l, k) => (k > 1 /\ l[k - 1].op = "haveBreak")

\* The last return of the target in the log l is followed by a poll of
\* haveBreak.
PolledAfterLastStop(l) ==
  \E k \in 1..(Len(l) - 1) :
    /\ l[k].op = "stopped" /\ l[k + 1].op = "haveBreak"
    /\ \A j \in (k + 1)..Len(l) : l[j].op # "stopped"

\* A slice of a continue ends in this step.
SliceEnds == pc = "continue" /\ Len(StoppedAt') = Len(StoppedAt) + 1

\* A single step is made in this step.
StepEnds == (\E d \in inputs.requests : Handles(d)) /\ StoppedAt' # <<>>

\* C29 as claimed: haveBreak is polled straight before every resume (STEP)
\* and resume (CONTINUE) and straight after every return of the target.
C29_PolledAroundEveryResume ==
  /\ PolledBeforeEachResume(log)
  /\ \A k \in 1..Len(log) :
       log[k].op = "stopped" => (k < Len(log) /\ log[k + 1].op = "haveBreak")

\* C29: haveBreak is polled straight before every resume (STEP) and resume
\* (CONTINUE).  After a slice of a continue it is polled if and only if the
\* slice returned TIMEOUT and the user timeout has not expired; after a step
\* it is polled if and only if the step did not return SYSCALL.
C29_PolledWhereTheCodePolls ==
  [][/\ PolledBeforeEachResume(log')
     /\ SliceEnds =>
          (PolledAfterLastStop(log') <=>
             /\ LastStop'[1] = "TIMEOUT"
             /\ ~(mTimeout # 0 /\ timeout_end < now + InterruptTimeout))
     /\ StepEnds =>
          (PolledAfterLastStop(log') <=> LastStop'[1] # "SYSCALL")]_vars

\* C29: a continue ran two slices; haveBreak was polled before the first,
\* and after the first, which timed out, but not after the second, which
\* stopped at a breakpoint.
C29_Witness ==
  /\ Handled /\ Request = <<"c">>
  /\ Len(StoppedAt) = 2
  /\ StoppedAt[1].arg[1] = "TIMEOUT" /\ LastStop[1] = "STEPPED"
  /\ Len(LogOf("haveBreak")) = 2
  /\ Sent = <<S05>>

\* Entry k of the log is a resume (STOP).
StopsTarget(k) == log[k].op = "resume" /\ log[k].arg = STOP

\* Entry k of the log sends the stop reply of INT or of XCPU.
SendsIntOrXcpu(k) == log[k].op = "putPkt" /\ log[k].arg \in {S02, S18}

\* The request in hand is a valid F reply with the Ctrl-C flag, which
\* rspSyscallReply answers itself, resuming nothing.
CtrlCReplyInHand ==
  /\ FReplyInHand
  /\ SyscallReplyPacket_parse(Request).valid
  /\ SyscallReplyPacket_parse(Request).hasCtrlC

\* C30: a stop reply S02 or S18 sent by a continue or a step comes straight
\* after a resume (STOP), itself not after another one; every resume (STOP)
\* is followed straight by the packet S02 or S18; and no other packet (S05,
\* an F request, a W reply) comes straight after a resume (STOP).
C30_StopPairsWithIntOrXcpu ==
  \A k \in 1..Len(log) :
    /\ (SendsIntOrXcpu(k) /\ ~CtrlCReplyInHand) =>
         /\ k > 1 /\ StopsTarget(k - 1)
         /\ ~(k > 2 /\ StopsTarget(k - 2))
    /\ StopsTarget(k) => (k < Len(log) /\ SendsIntOrXcpu(k + 1))
    /\ (log[k].op = "putPkt" /\ ~SendsIntOrXcpu(k)) =>
         ~(k > 1 /\ StopsTarget(k - 1))

\* C30: a continue used up the user timeout; the target was stopped once and
\* S18 sent straight after.
C30_Witness ==
  /\ Handled /\ Request = <<"c">>
  /\ Len(log) > 2
  /\ StopsTarget(Len(log) - 1)
  /\ log[Len(log)] = Ev("putPkt", S18)
  /\ Len(SelectSeq(LogOf("resume"), LAMBDA e : e.arg = STOP)) = 1

\* The slice that ends in this step returns TIMEOUT.
SliceTimesOut == SliceEnds /\ LastStop'[1] = "TIMEOUT"

\* The user deadline has passed when the slice of this step returns.
DeadlinePassed == mTimeout # 0 /\ timeout_end < now + InterruptTimeout

\* What the slice of this step adds to the log before the server acts on it.
SliceRan == log \o <<Ev("resume", CONTINUE), Ev("stopped", LastStop')>>

\* C31: after a slice that returns TIMEOUT, if the timeout is not 0 and the
\* deadline has passed, the server stops the target and sends S18 without
\* polling haveBreak, and a break pending at that moment stays pending;
\* otherwise it polls haveBreak next, and ends the continue with a STOP and
\* S02 exactly when a break was pending.
C31_DeadlineBeforeBreak ==
  [][SliceTimesOut =>
       IF DeadlinePassed
         THEN /\ log' = SliceRan \o <<Ev("resume", STOP), Ev("putPkt", S18)>>
              /\ breakPending' = breakPending
              /\ pc' = "loop"
         ELSE /\ ~breakPending'
              /\ IF breakPending
                   THEN /\ log' = SliceRan \o <<Ev("haveBreak", TRUE),
                                               Ev("resume", STOP),
                                               Ev("putPkt", S02)>>
                        /\ pc' = "loop"
                   ELSE /\ log' = SliceRan \o <<Ev("haveBreak", FALSE)>>
                        /\ pc' = "continue"]_vars

\* C31: a continue ran out of its timeout of one second while a break was
\* pending: S18 was sent, the break was never seen by a poll and is still
\* pending.
C31_Witness ==
  /\ Handled /\ Request = <<"c">>
  /\ NeverHalted /\ TimeoutSlices = 11
  /\ Sent = <<S18>>
  /\ breakPending
  /\ \A k \in 1..Len(log) : log[k].op = "haveBreak" => log[k].arg = FALSE

\* The requests that make a single step.
StepRequests == {d \in inputs.requests : FirstByte(d) \in {"s", "S"}}

\* The packet of a system call with number a7 is of the kind the table gives.
SyscallPacketKind(p, a7) ==
  IF a7 = 93 THEN IsExitReply(p)
  ELSE IF a7 \in SupportedSyscalls THEN IsFRequest(p)
  ELSE p = S05

\* C32: a single step returns to the top loop having sent exactly one
\* packet.  With a break pending it polls, stops the target and sends S02
\* without resuming.  Otherwise it resumes with STEP exactly once.  If the
\* target returns SYSCALL it sends the packet of the call (F request, W, or
\* S05 for a call it does not know) without a second poll, the continuation
\* being FINISH_STEPPING, or none after W.  For any other result, TIMEOUT,
\* NONE, SUCCESS and FAILURE included, it polls again and sends S02 after a
\* STOP if a break arrived during the step, else S05, and the continuation is
\* as it was.
C32_StepOrder ==
  [][\A d \in StepRequests : Handles(d) =>
       /\ pc' = "loop"
       /\ Len(Sent') = 1
       /\ IF breakPending
            THEN /\ log' = <<Ev("getPkt", d), Ev("haveBreak", TRUE),
                             Ev("resume", STOP), Ev("putPkt", S02)>>
                 /\ mSyscallContinuation' = mSyscallContinuation
            ELSE /\ Len(log') >= 5
                 /\ SubSeq(log', 1, 3) = <<Ev("getPkt", d), Ev("haveBreak", FALSE),
                                           Ev("resume", STEP)>>
                 /\ log'[4].op = "stopped"
                 /\ Len(SelectSeq(LogOf("resume")', LAMBDA e : e.arg = STEP)) = 1
                 /\ IF log'[4].arg[1] = "SYSCALL"
                      THEN /\ Len(log') = 5
                           /\ log'[5].op = "putPkt"
                           /\ SyscallPacketKind(log'[5].arg, log'[4].arg[3])
                           /\ mSyscallContinuation' =
                                IF log'[4].arg[3] = 93 THEN SYSCALL_NONE_PENDING
                                ELSE SYSCALL_THEN_FINISH_STEPPING
                      ELSE /\ log'[5].op = "haveBreak"
                           /\ SubSeq(log', 6, Len(log')) =
                                IF log'[5].arg
                                  THEN <<Ev("resume", STOP), Ev("putPkt", S02)>>
                                  ELSE <<Ev("putPkt", S05)>>
                           /\ ~breakPending'
                           /\ mSyscallContinuation' = mSyscallContinuation]_vars

\* C32: a step for which the target returned FAILURE has been answered S05
\* like a completed step.
C32_Witness ==
  /\ Handled /\ Request = <<"s">>
  /\ Len(StoppedAt) = 1 /\ LastStop[1] = "FAILURE"
  /\ Sent = <<S05>>
  /\ pc = "loop"

\* The resume results rspContinue's switch has no case for.
UnexpectedResults == ResumeRes \ {"SYSCALL", "STEPPED", "INTERRUPTED", "TIMEOUT"}

\* C33: a slice of a continue that returns NONE, SUCCESS or FAILURE ends the
\* process with nothing sent and nothing done after the return of the
\* target; a slice that returns any other result does not; a single step
\* does not end the process whatever its result, and an ended process takes
\* no further step.
C33_UnexpectedResultIsFatal ==
  [][/\ SliceEnds =>
          /\ pc' = "aborted" <=> LastStop'[1] \in UnexpectedResults
          /\ pc' = "aborted" => log' = SliceRan
     /\ StepEnds => pc' # "aborted"
     /\ pc # "aborted"]_vars

\* C33: the process has ended in a continue whose first slice returned NONE,
\* and no packet was sent.
C33_Witness ==
  /\ pc = "aborted"
  /\ log[1] = Ev("getPkt", <<"c">>)
  /\ Len(StoppedAt) = 1 /\ LastStop[1] = "NONE"
  /\ Sent = <<>>

\* The bytes an X packet supplies after its colon, unescaped; none without a
\* colon.
Supplied(d) ==
  IF IndexOf(d, ":") = 0 THEN <<>> ELSE rspUnescape(d, IndexOf(d, ":") + 1)

\* min (len, suppliedLen), len being unsigned.
MinLen(d) ==
  LET len == ScanAddrLen(d).len IN
  IF len >= 0 /\ len < Len(Supplied(d)) THEN len ELSE Len(Supplied(d))

\* This step answers the X packet d with OK alone, having written the first
\* MinLen(d) bytes supplied from addr on, where the target has memory, and
\* changed no other byte.
WritesMinimum(d) ==
  /\ pc' = "loop"
  /\ Sent' = <<OK>>
  /\ mem' = [a \in DOMAIN mem |->
               LET k == a - ScanAddrLen(d).addr + 1 IN
               IF k >= 1 /\ k <= MinLen(d) THEN Supplied(d)[k] ELSE mem[a]]
  /\ regs' = regs

\* C34 as claimed: every X packet whose header sscanf converts twice is
\* answered OK, with min (len, suppliedLen) bytes written at addr and no
\* other byte changed.
C34_BinaryWriteAlwaysOK ==
  [][\A d \in inputs.requests :
       (Handles(d) /\ FirstByte(d) = "X" /\ ScanAddrLen(d).n = 2) =>
          WritesMinimum(d)]_vars

\* C34: the packet X1000,1:zq, which asks for one byte and supplies two, has
\* been answered OK; the first byte was written and the second was not.
C34_MinimumWritten ==
  /\ Handled /\ Request = <<"X","1","0","0","0",",","1",":","z","q">>
  /\ Sent = <<OK>>
  /\ mem[MemBase] = 122
  /\ mem[MemBase + 1] # 113

\* C35 as claimed: whenever the target is resumed, by a slice of a continue
\* or by a single step, no continuation is pending.
C35_NeverResumedWhilePending ==
  [][(SliceEnds \/ StepEnds) =>
       mSyscallContinuation = SYSCALL_NONE_PENDING]_vars

\* C35: the target stopped at the system call 94, which the server does not
\* know, during a continue; the client sent c, and the target has been
\* resumed with FINISH_CONTINUE still pending.
C35_ResumedWhilePending ==
  /\ pc = "continue"
  /\ log # <<>> /\ log[1] = Ev("getPkt", <<"c">>)
  /\ ResumedWith(CONTINUE)
  /\ regs[17] = 94
  /\ mSyscallContinuation = SYSCALL_THEN_FINISH_CONTINUE

\* C36: every entry to rspContinue that goes on to its loop, from c or from
\* an F reply, sets the deadline to the time of entry plus the timeout of
\* that moment; while the continue runs neither the deadline nor the timeout
\* changes; and a slice that returns TIMEOUT ends the continue with S18
\* exactly when the timeout is not 0 and the slices run since this entry
\* exceed it, whatever ran before the entry.
C36_DeadlineFreshOnEntry ==
  [][/\ (pc = "loop" /\ pc' = "continue") =>
          /\ timeout_end' = now' + Ticks(mTimeout')
          /\ mTimeout' = mTimeout
          /\ TimeoutSlices' = 0
     /\ (pc = "continue" /\ pc' = "continue") =>
          (timeout_end' = timeout_end /\ mTimeout' = mTimeout)
     /\ SliceTimesOut =>
          (Sent' = <<S18>> /\ pc' = "loop"
             <=> mTimeout # 0 /\ TimeoutSlices' * InterruptTimeout > Ticks(mTimeout))]_vars

\* C36: a continue re-entered by the reply F5 under a timeout of one second
\* has run eleven slices of its own before S18 was sent.
C36_Witness ==
  /\ Handled /\ Request = <<"F","5">>
  /\ mTimeout = 1
  /\ NeverHalted /\ TimeoutSlices = 11
  /\ Sent = <<S18>>

\* The server has sent the request or the exit reply of a system call.
SyscallRoundTrip == \E k \in 1..Len(Sent) : IsFRequest(Sent[k]) \/ IsExitReply(Sent[k])

\* C37: driving the Picorv32 target, resume (STEP) and resume (CONTINUE)
\* return only TIMEOUT or INTERRUPTED and resume (STOP) returns NONE; the
\* server never ends in the fatal branch of the continue loop, never sends
\* the packet of a system call and never has a continuation pending; and a
\* continue under a timeout above 0 comes to its end with S05 or S18, or
\* with S02 if a poll found a break.
C37_Picorv32NeverAbortsAndStops ==
  /\ [](/\ Picorv32Results = {"TIMEOUT", "INTERRUPTED"}
        /\ Picorv32_resume(STOP, TRUE) = "NONE"
        /\ Picorv32_resume(STOP, FALSE) = "NONE"
        /\ \A k \in 1..Len(StoppedAt) : StoppedAt[k].arg[1] \in {"TIMEOUT", "INTERRUPTED"}
        /\ pc # "aborted"
        /\ ~SyscallRoundTrip
        /\ mSyscallContinuation = SYSCALL_NONE_PENDING)
  /\ ((pc = "continue" /\ mTimeout > 0)
        ~> (/\ pc = "loop"
            /\ \/ Sent = <<S05>>
               \/ Sent = <<S18>>
               \/ /\ Sent = <<S02>>
                  /\ \E k \in 1..Len(log) :
                       log[k].op = "haveBreak" /\ log[k].arg))

\* C37: under a timeout of one second a continue of the Picorv32 target ran
\* two slices that timed out and a third that halted, and ended with S05.
C37_Witness ==
  /\ inputs.results = Picorv32Results
  /\ Handled /\ Request = <<"c">>
  /\ mTimeout = 1
  /\ Len(StoppedAt) = 3 /\ TimeoutSlices = 2 /\ LastStop[1] = "INTERRUPTED"
  /\ Sent = <<S05>>

====
